---- MODULE Spec2Model ----
(***************************************************************************)
(* Session layer of the LG TV tray remote.                                 *)
(*                                                                         *)
(* tv.rs   : TvConnection (command channel ws, input channel input_ws,     *)
(*           connected flag, request-id counter) and its methods, written  *)
(*           here as operators from a TvConnection value and the outcome   *)
(*           of the I/O the method performs to the new TvConnection value, *)
(*           the method's result and the list of I/O events it performed.  *)
(* main.rs : the Tauri commands, the global-shortcut action path and the   *)
(*           keepalive task.  Every command locks AppState.tv for its      *)
(*           whole body, so a command is one action; a keepalive task      *)
(*           gives the lock up only while it sleeps, so one tick and one   *)
(*           retry after the grace sleep are one action each.              *)
(***************************************************************************)
EXTENDS Integers, Sequences, FiniteSets, TLC

\* ------------------------------------------------------------------ bounds
\* Requests sent over the lifetime of the process (msg_id is a u32).
MaxMsgId == 6
\* Keepalive tasks alive at the same time.
MaxKeepalive == 2
MaxLog == 8
\* Two-character groups of a MAC string under test (a MAC has six).
MaxGroups == 7
\* Frames that arrive during one wait for a response.
MaxFrames == 3

\* ------------------------------------------------------------- vocabulary
NoKey == "none"
Keys == {"abc123"}
\* A payload whose client-key is present and is not a JSON string.
NotAString == "<number>"
\* The reason of a device's error frame; NoKey where it gives none.
Reasons == {"denied"}
NoMac == "none"
Macs == {"aa:bb"}
\* The MAC of the wired interface, where the device reports one.
WiredMac == "cc:dd"
\* The text of the error field of a status response.
StatusError == "404 no such service"

UriPointer == "ssap://com.webos.service.networkinput/getPointerInputSocket"
UriVolumeUp == "ssap://audio/volumeUp"
UriVolumeDown == "ssap://audio/volumeDown"
UriSetMute == "ssap://audio/setMute"
UriTurnOff == "ssap://system/turnOff"
UriGetInfo == "ssap://com.webos.service.connectionmanager/getinfo"
UriGetStatus == "ssap://com.webos.service.connectionmanager/getStatus"
UriWifiStatus == "ssap://com.webos.service.wifi/getstatus"
UriPalmStatus == "ssap://com.palm.wifi/getStatus"

\* Characters of button names; to_uppercase maps the first row to the second.
LowerChars == <<"u", "p", "o", "k">>
UpperChars == <<"U", "P", "O", "K">>

\* An I/O event: which channel ("ws", "input", "ui"), what happened, for a
\* request and the end of its response wait the request id and uri (the
\* handshake has uri "register"), and for a frame written to the input
\* channel its text as a list of lines, each a list of characters or tokens.
Ev(ch, ev, id, uri, body) ==
  [ch |-> ch, ev |-> ev, id |-> id, uri |-> uri, body |-> body]

\* A response envelope, reduced to the fields the program probes:
\* payload.socketPath present; error present, and its value (NoKey where
\* absent, NotAString where it is no string); the macAddress of
\* payload.wifiInfo and of payload.wiredInfo; whether one of the fields read
\* as "wifi connected" says so, and whether payload.wired.state does.
NoResp ==
  [socketPath |-> FALSE, error |-> FALSE, reason |-> NoKey,
   wifi_mac |-> NoMac, wired_mac |-> NoMac,
   wifi_connected |-> FALSE, wired_connected |-> FALSE]
Responses ==
  {[NoResp EXCEPT !.socketPath = a, !.error = b, !.wifi_mac = m] :
     a \in BOOLEAN, b \in BOOLEAN, m \in Macs \cup {NoMac}}

\* Outcome of the I/O of one send_command on a present command channel:
\* the write fails, or the read loop ends with a decodable text frame, a
\* read error, the end of the stream, or the 3 s timeout.
CmdFailKinds == {"write_fail", "read_err", "closed", "timeout"}
CmdFail == {[r |-> f, resp |-> NoResp] : f \in CmdFailKinds}
CmdOk(R) == {[r |-> "resp", resp |-> x] : x \in R}
CmdOutcomes == CmdFail \cup CmdOk(Responses)
\* The failures drawn where a request is nested in a longer operation: the
\* first and the last way a request can fail.
FailSample == {o \in CmdFail : o.r \in {"write_fail", "timeout"}}
\* The first text frame the response wait reads is the reply to the earlier
\* request, which that request's own wait did not read.
Earlier == [r |-> "earlier", resp |-> NoResp]

\* data["payload"]["client-key"].as_str() that takes any value for a key.
as_str_any(v) == v

\* data["payload"]["client-key"].as_str(): the string, or None when the
\* field is absent (NoKey) or holds another kind of value.
as_str(v) == IF v \in {NoKey, NotAString} THEN NoKey ELSE v

\* ------------------------------------------------------------------ tv.rs
new ==
  [ws |-> FALSE, input_ws |-> FALSE, msg_id |-> 0, connected |-> FALSE]

ToUpperChar(c) ==
  IF \E i \in 1..Len(LowerChars) : LowerChars[i] = c
  THEN UpperChars[CHOOSE i \in 1..Len(LowerChars) : LowerChars[i] = c]
  ELSE c

to_uppercase(s) == [i \in 1..Len(s) |-> ToUpperChar(s[i])]

\* disconnect that drops the command channel without closing it.
disconnect_drops_channel(t) ==
  [tv |-> [t EXCEPT !.connected = FALSE, !.input_ws = FALSE, !.ws = FALSE],
   io |-> IF t.input_ws THEN <<Ev("input", "close", 0, "", <<>>)>> ELSE <<>>]

\* disconnect that closes the channels and forgets to clear the flag.
disconnect_keeps_flag(t) ==
  [tv |-> [t EXCEPT !.input_ws = FALSE, !.ws = FALSE],
   io |-> (IF t.input_ws THEN <<Ev("input", "close", 0, "", <<>>)>> ELSE <<>>)
          \o (IF t.ws THEN <<Ev("ws", "close", 0, "", <<>>)>> ELSE <<>>)]

disconnect(t) ==
  [tv |-> [t EXCEPT !.connected = FALSE, !.input_ws = FALSE, !.ws = FALSE],
   io |-> (IF t.input_ws THEN <<Ev("input", "close", 0, "", <<>>)>> ELSE <<>>)
          \o (IF t.ws THEN <<Ev("ws", "close", 0, "", <<>>)>> ELSE <<>>)]

\* send_command whose response timeout returns the error and leaves the
\* connected flag as it was.
send_command_timeout_keeps_flag(t, uri, o) ==
  IF ~t.ws
  THEN [tv |-> t, io |-> <<>>, ok |-> FALSE, err |-> <<"Not connected">>,
        resp |-> NoResp]
  ELSE
    LET t1 == [t EXCEPT !.msg_id = @ + 1]
        down == [t1 EXCEPT !.connected = FALSE]
        wr == Ev("ws", "write", t1.msg_id, uri, <<>>)
    IN CASE o.r = "write_fail" ->
              [tv |-> down,
               io |-> <<Ev("ws", "write_fail", t1.msg_id, uri, <<>>)>>,
               ok |-> FALSE, err |-> <<"Send failed (disconnected)">>,
               resp |-> NoResp]
         [] o.r = "resp" ->
              [tv |-> t1, io |-> <<wr, Ev("ws", "read", t1.msg_id, uri, <<>>)>>,
               ok |-> TRUE, err |-> <<>>, resp |-> o.resp]
         [] o.r = "earlier" ->
              [tv |-> t1,
               io |-> <<wr, Ev("ws", "read_earlier", t1.msg_id, uri, <<>>)>>,
               ok |-> TRUE, err |-> <<>>, resp |-> o.resp]
         [] o.r = "read_err" ->
              [tv |-> down, io |-> <<wr, Ev("ws", "read_err", t1.msg_id, uri, <<>>)>>,
               ok |-> FALSE, err |-> <<"WebSocket error">>, resp |-> NoResp]
         [] o.r = "closed" ->
              [tv |-> down, io |-> <<wr, Ev("ws", "closed", t1.msg_id, uri, <<>>)>>,
               ok |-> FALSE, err |-> <<"Connection closed">>, resp |-> NoResp]
         [] OTHER ->
              [tv |-> t1, io |-> <<wr, Ev("ws", "timeout", t1.msg_id, uri, <<>>)>>,
               ok |-> FALSE, err |-> <<"Command timeout (disconnected)">>,
               resp |-> NoResp]

\* send_command that takes a request id before it looks for the channel.
send_command_counts_first(t, uri, o) ==
  IF ~t.ws
  THEN [tv |-> [t EXCEPT !.msg_id = @ + 1], io |-> <<>>, ok |-> FALSE,
        err |-> <<"Not connected">>, resp |-> NoResp]
  ELSE
    LET t1 == [t EXCEPT !.msg_id = @ + 1]
        down == [t1 EXCEPT !.connected = FALSE]
        wr == Ev("ws", "write", t1.msg_id, uri, <<>>)
    IN CASE o.r = "write_fail" ->
              [tv |-> down,
               io |-> <<Ev("ws", "write_fail", t1.msg_id, uri, <<>>)>>,
               ok |-> FALSE, err |-> <<"Send failed (disconnected)">>,
               resp |-> NoResp]
         [] o.r = "resp" ->
              [tv |-> t1, io |-> <<wr, Ev("ws", "read", t1.msg_id, uri, <<>>)>>,
               ok |-> TRUE, err |-> <<>>, resp |-> o.resp]
         [] o.r = "earlier" ->
              [tv |-> t1,
               io |-> <<wr, Ev("ws", "read_earlier", t1.msg_id, uri, <<>>)>>,
               ok |-> TRUE, err |-> <<>>, resp |-> o.resp]
         [] o.r = "read_err" ->
              [tv |-> down, io |-> <<wr, Ev("ws", "read_err", t1.msg_id, uri, <<>>)>>,
               ok |-> FALSE, err |-> <<"WebSocket error">>, resp |-> NoResp]
         [] o.r = "closed" ->
              [tv |-> down, io |-> <<wr, Ev("ws", "closed", t1.msg_id, uri, <<>>)>>,
               ok |-> FALSE, err |-> <<"Connection closed">>, resp |-> NoResp]
         [] OTHER ->
              [tv |-> down, io |-> <<wr, Ev("ws", "timeout", t1.msg_id, uri, <<>>)>>,
               ok |-> FALSE, err |-> <<"Command timeout (disconnected)">>,
               resp |-> NoResp]

send_command(t, uri, o) ==
  IF ~t.ws
  THEN [tv |-> t, io |-> <<>>, ok |-> FALSE, err |-> <<"Not connected">>,
        resp |-> NoResp]
  ELSE
    LET t1 == [t EXCEPT !.msg_id = @ + 1]
        down == [t1 EXCEPT !.connected = FALSE]
        wr == Ev("ws", "write", t1.msg_id, uri, <<>>)
    IN CASE o.r = "write_fail" ->
              [tv |-> down,
               io |-> <<Ev("ws", "write_fail", t1.msg_id, uri, <<>>)>>,
               ok |-> FALSE, err |-> <<"Send failed (disconnected)">>,
               resp |-> NoResp]
         [] o.r = "resp" ->
              [tv |-> t1, io |-> <<wr, Ev("ws", "read", t1.msg_id, uri, <<>>)>>,
               ok |-> TRUE, err |-> <<>>, resp |-> o.resp]
         [] o.r = "earlier" ->
              [tv |-> t1,
               io |-> <<wr, Ev("ws", "read_earlier", t1.msg_id, uri, <<>>)>>,
               ok |-> TRUE, err |-> <<>>, resp |-> o.resp]
         [] o.r = "read_err" ->
              [tv |-> down, io |-> <<wr, Ev("ws", "read_err", t1.msg_id, uri, <<>>)>>,
               ok |-> FALSE, err |-> <<"WebSocket error">>, resp |-> NoResp]
         [] o.r = "closed" ->
              [tv |-> down, io |-> <<wr, Ev("ws", "closed", t1.msg_id, uri, <<>>)>>,
               ok |-> FALSE, err |-> <<"Connection closed">>, resp |-> NoResp]
         [] OTHER ->
              [tv |-> down, io |-> <<wr, Ev("ws", "timeout", t1.msg_id, uri, <<>>)>>,
               ok |-> FALSE, err |-> <<"Command timeout (disconnected)">>,
               resp |-> NoResp]

\* Outcome of connect_input_socket: the getPointerInputSocket request and,
\* when it returned a socket path, the opening of that path.
InputOutcomes ==
  {[cmd |-> c, open |-> "none"] :
      c \in FailSample \cup CmdOk({[NoResp EXCEPT !.socketPath = FALSE]})}
  \cup {[cmd |-> c, open |-> x] :
      c \in CmdOk({[NoResp EXCEPT !.socketPath = TRUE]}), x \in {"ok", "fail"}}

\* connect_input_socket that marks the session disconnected when the
\* socket path cannot be opened.
connect_input_socket_open_fatal(t, o) ==
  LET c == send_command(t, UriPointer, o.cmd)
  IN IF ~c.ok
     THEN [tv |-> c.tv, io |-> c.io, ok |-> FALSE, err |-> c.err]
     ELSE IF ~c.resp.socketPath
     THEN [tv |-> c.tv, io |-> c.io, ok |-> FALSE,
           err |-> <<"No socket path in response">>]
     ELSE IF o.open # "ok"
     THEN [tv |-> [c.tv EXCEPT !.connected = FALSE],
           io |-> c.io \o <<Ev("input", "open_fail", 0, "", <<>>)>>,
           ok |-> FALSE, err |-> <<"WebSocket connection failed">>]
     ELSE [tv |-> [c.tv EXCEPT !.input_ws = TRUE],
           io |-> c.io \o <<Ev("input", "open", 0, "", <<>>)>>,
           ok |-> TRUE, err |-> <<>>]

connect_input_socket(t, o) ==
  LET c == send_command(t, UriPointer, o.cmd)
  IN IF ~c.ok
     THEN [tv |-> c.tv, io |-> c.io, ok |-> FALSE, err |-> c.err]
     ELSE IF ~c.resp.socketPath
     THEN [tv |-> c.tv, io |-> c.io, ok |-> FALSE,
           err |-> <<"No socket path in response">>]
     ELSE IF o.open # "ok"
     THEN [tv |-> c.tv,
           io |-> c.io \o <<Ev("input", "open_fail", 0, "", <<>>)>>,
           ok |-> FALSE, err |-> <<"WebSocket connection failed">>]
     ELSE [tv |-> [c.tv EXCEPT !.input_ws = TRUE],
           io |-> c.io \o <<Ev("input", "open", 0, "", <<>>)>>,
           ok |-> TRUE, err |-> <<>>]

\* refresh_input_socket that opens the new input channel over the old one.
refresh_input_socket_overwrites(t, o) ==
  LET c == connect_input_socket(t, o)
  IN [c EXCEPT !.io = <<Ev("input", "refresh", 0, "", <<>>)>> \o c.io]

refresh_input_socket(t, o) ==
  LET taken == [t EXCEPT !.input_ws = FALSE]
      c == connect_input_socket(taken, o)
  IN [c EXCEPT !.io =
        <<Ev("input", "refresh", 0, "", <<>>)>>
        \o (IF t.input_ws THEN <<Ev("input", "close", 0, "", <<>>)>>
            ELSE <<>>)
        \o c.io]

\* Outcome of send_button: the reopening of the input channel (used only
\* when it is absent) and the write of the button frame.
ButtonOutcomes ==
  {[input |-> i, write |-> w] : i \in InputOutcomes, w \in {"ok", "fail"}}

\* send_button that on a failed write only drops the input channel.
send_button_keeps_flag(t, button, o) ==
  LET r == IF ~t.input_ws THEN connect_input_socket(t, o.input)
           ELSE [tv |-> t, io |-> <<>>, ok |-> TRUE, err |-> <<>>]
      cmd == <<(<<"type:button">>), <<"name:">> \o to_uppercase(button), <<>>>>
  IN IF ~r.ok
     THEN [tv |-> [r.tv EXCEPT !.connected = FALSE], io |-> r.io,
           ok |-> FALSE,
           err |-> <<"Failed to connect input socket">> \o r.err]
     ELSE IF ~r.tv.input_ws
     THEN [tv |-> r.tv, io |-> r.io, ok |-> FALSE,
           err |-> <<"Input socket not available">>]
     ELSE IF o.write # "ok"
     THEN [tv |-> [r.tv EXCEPT !.input_ws = FALSE],
           io |-> r.io \o <<Ev("input", "write_fail", 0, "", cmd)>>,
           ok |-> FALSE, err |-> <<"Button send failed (disconnected)">>]
     ELSE [tv |-> r.tv,
           io |-> r.io \o <<Ev("input", "write", 0, "", cmd)>>,
           ok |-> TRUE, err |-> <<>>]

send_button(t, button, o) ==
  LET r == IF ~t.input_ws THEN connect_input_socket(t, o.input)
           ELSE [tv |-> t, io |-> <<>>, ok |-> TRUE, err |-> <<>>]
      cmd == <<(<<"type:button">>), <<"name:">> \o to_uppercase(button), <<>>>>
  IN IF ~r.ok
     THEN [tv |-> [r.tv EXCEPT !.connected = FALSE], io |-> r.io,
           ok |-> FALSE,
           err |-> <<"Failed to connect input socket">> \o r.err]
     ELSE IF ~r.tv.input_ws
     THEN [tv |-> r.tv, io |-> r.io, ok |-> FALSE,
           err |-> <<"Input socket not available">>]
     ELSE IF o.write # "ok"
     THEN [tv |-> [r.tv EXCEPT !.input_ws = FALSE, !.connected = FALSE],
           io |-> r.io \o <<Ev("input", "write_fail", 0, "", cmd)>>,
           ok |-> FALSE, err |-> <<"Button send failed (disconnected)">>]
     ELSE [tv |-> r.tv,
           io |-> r.io \o <<Ev("input", "write", 0, "", cmd)>>,
           ok |-> TRUE, err |-> <<>>]

volume_up(t, o) ==
  LET c == send_command(t, UriVolumeUp, o)
  IN [tv |-> c.tv, io |-> c.io, ok |-> c.ok, err |-> c.err]

volume_down(t, o) ==
  LET c == send_command(t, UriVolumeDown, o)
  IN [tv |-> c.tv, io |-> c.io, ok |-> c.ok, err |-> c.err]

set_mute(t, mute, o) ==
  LET c == send_command(t, UriSetMute, o)
  IN [tv |-> c.tv, io |-> c.io, ok |-> c.ok, err |-> c.err]

power_off(t, o) ==
  LET c == send_command(t, UriTurnOff, o)
  IN IF ~c.ok
     THEN [tv |-> c.tv, io |-> c.io, ok |-> FALSE, err |-> c.err]
     ELSE [tv |-> [c.tv EXCEPT !.connected = FALSE], io |-> c.io,
           ok |-> TRUE, err |-> <<>>]

keepalive_ping(t, o) ==
  LET c == send_command(t, UriGetInfo, o)
  IN [tv |-> c.tv, io |-> c.io, ok |-> c.ok, err |-> c.err]

get_network_info(t, o) == send_command(t, UriGetInfo, o)

check_status_response(response) ==
  IF response.error THEN [ok |-> FALSE] ELSE [ok |-> TRUE]

\* Outcomes of get_network_status: one outcome per endpoint it gets to query.
StatusErr == CmdOk({[NoResp EXCEPT !.error = TRUE]})
StatusGood == CmdOk({NoResp})
StatusOutcomes ==
  {<<a>> : a \in CmdFail \cup StatusGood}
  \cup {<<a, b>> : a \in StatusErr, b \in CmdFail \cup StatusGood}
  \cup {<<a, b, c>> : a \in StatusErr, b \in StatusErr,
                      c \in CmdFail \cup StatusGood \cup StatusErr}

\* The error of a status response: response["error"].as_str()
error_text(response, default) ==
  IF as_str(response.reason) = NoKey THEN default ELSE response.reason

\* get_network_status that reports the error of the first endpoint.
get_network_status_first_error(t, os) ==
  LET c1 == send_command(t, UriGetStatus, os[1])
      fail(c, io) ==
        [tv |-> c.tv, io |-> io, ok |-> FALSE, err |-> c.err, resp |-> NoResp]
      done(c, io) ==
        [tv |-> c.tv, io |-> io, ok |-> TRUE, err |-> <<>>, resp |-> c.resp]
  IN IF ~c1.ok THEN fail(c1, c1.io)
     ELSE IF check_status_response(c1.resp).ok THEN done(c1, c1.io)
     ELSE
       LET c2 == send_command(c1.tv, UriWifiStatus, os[2])
           io2 == c1.io \o c2.io
       IN IF ~c2.ok THEN fail(c2, io2)
          ELSE IF check_status_response(c2.resp).ok THEN done(c2, io2)
          ELSE
            LET c3 == send_command(c2.tv, UriPalmStatus, os[3])
                io3 == io2 \o c3.io
            IN IF ~c3.ok THEN fail(c3, io3)
               ELSE IF check_status_response(c3.resp).ok THEN done(c3, io3)
               ELSE [tv |-> c3.tv, io |-> io3, ok |-> FALSE,
                     err |-> <<error_text(c1.resp, "unknown")>>,
                     resp |-> NoResp]

get_network_status(t, os) ==
  LET c1 == send_command(t, UriGetStatus, os[1])
      fail(c, io) ==
        [tv |-> c.tv, io |-> io, ok |-> FALSE, err |-> c.err, resp |-> NoResp]
      done(c, io) ==
        [tv |-> c.tv, io |-> io, ok |-> TRUE, err |-> <<>>, resp |-> c.resp]
  IN IF ~c1.ok THEN fail(c1, c1.io)
     ELSE IF check_status_response(c1.resp).ok THEN done(c1, c1.io)
     ELSE
       LET c2 == send_command(c1.tv, UriWifiStatus, os[2])
           io2 == c1.io \o c2.io
       IN IF ~c2.ok THEN fail(c2, io2)
          ELSE IF check_status_response(c2.resp).ok THEN done(c2, io2)
          ELSE
            LET c3 == send_command(c2.tv, UriPalmStatus, os[3])
                io3 == io2 \o c3.io
            IN IF ~c3.ok THEN fail(c3, io3)
               ELSE IF check_status_response(c3.resp).ok THEN done(c3, io3)
               ELSE [tv |-> c3.tv, io |-> io3, ok |-> FALSE,
                     err |-> <<error_text(c3.resp, "unknown")>>,
                     resp |-> NoResp]

\* Outcomes of get_connected_mac: the getinfo request, then the status probe.
MacOutcomes ==
  {[info |-> i, status |-> <<>>] : i \in CmdFail}
  \cup {[info |-> i, status |-> s] :
          i \in CmdOk({[NoResp EXCEPT !.wifi_mac = m] : m \in Macs \cup {NoMac}}),
          s \in StatusOutcomes}

\* The outcomes of the MAC lookup that the session commands draw from: one
\* per way the lookup can end (request lost, MAC found at the first, second
\* or third status endpoint or at none, status request lost, no MAC).
TimedOut == [r |-> "timeout", resp |-> NoResp]
Good == [r |-> "resp", resp |-> NoResp]
Bad == [r |-> "resp", resp |-> [NoResp EXCEPT !.error = TRUE]]
WithMac ==
  [r |-> "resp", resp |-> [NoResp EXCEPT !.wifi_mac = CHOOSE m \in Macs : TRUE]]
MacSample ==
  {[info |-> TimedOut, status |-> <<>>],
   [info |-> WithMac, status |-> <<Good>>],
   [info |-> WithMac, status |-> <<Bad, TimedOut>>],
   [info |-> Good, status |-> <<Bad, Bad, Bad>>]}

\* get_connected_mac that prefers the wifi interface.
get_connected_mac_wifi_first(t, o) ==
  LET i == get_network_info(t, o.info)
  IN IF ~i.ok
     THEN [tv |-> i.tv, io |-> i.io, ok |-> FALSE, err |-> i.err,
           mac |-> NoMac]
     ELSE
       LET s == get_network_status(i.tv, o.status)
           wifi_mac == i.resp.wifi_mac
           wired_mac == i.resp.wired_mac
           first_available == IF wifi_mac # NoMac THEN wifi_mac ELSE wired_mac
       IN [tv |-> s.tv, io |-> i.io \o s.io, ok |-> TRUE, err |-> <<>>,
           mac |-> IF s.ok /\ s.resp.wifi_connected /\ wifi_mac # NoMac
                   THEN wifi_mac
                   ELSE IF s.ok /\ s.resp.wired_connected /\ wired_mac # NoMac
                   THEN wired_mac
                   ELSE first_available]

\* get_connected_mac: the getinfo request, the status probe, and the choice
\* between the MAC of the wifi and of the wired interface.
get_connected_mac(t, o) ==
  LET i == get_network_info(t, o.info)
  IN IF ~i.ok
     THEN [tv |-> i.tv, io |-> i.io, ok |-> FALSE, err |-> i.err,
           mac |-> NoMac]
     ELSE
       LET s == get_network_status(i.tv, o.status)
           wifi_mac == i.resp.wifi_mac
           wired_mac == i.resp.wired_mac
           first_available == IF wifi_mac # NoMac THEN wifi_mac ELSE wired_mac
       IN [tv |-> s.tv, io |-> i.io \o s.io, ok |-> TRUE, err |-> <<>>,
           mac |-> IF s.ok /\ s.resp.wired_connected /\ wired_mac # NoMac
                   THEN wired_mac
                   ELSE IF s.ok /\ s.resp.wifi_connected /\ wifi_mac # NoMac
                   THEN wifi_mac
                   ELSE first_available]

\* Outcomes of connect: opening the command channel (5 s bound), sending the
\* register frame, the frame or event that ends the handshake loop, the
\* client-key of the registered frame, and the opening of the input channel.
AnyInput == [cmd |-> [r |-> "timeout", resp |-> NoResp], open |-> "none"]
ConnectFailures ==
  {[open |-> x, hsWrite |-> "none", hs |-> "none", key |-> NoKey,
    reason |-> NoKey, input |-> AnyInput] : x \in {"fail", "timeout"}}
  \cup {[open |-> "ok", hsWrite |-> "fail", hs |-> "none", key |-> NoKey,
         reason |-> NoKey, input |-> AnyInput]}
  \cup {[open |-> "ok", hsWrite |-> "ok", hs |-> h, key |-> NoKey,
         reason |-> IF h = "error" THEN "denied" ELSE NoKey,
         input |-> AnyInput] : h \in {"error", "ws_error", "closed", "timeout"}}
ConnectRegistered ==
  {[open |-> "ok", hsWrite |-> "ok", hs |-> "registered", key |-> k,
    reason |-> NoKey, input |-> i] : k \in Keys \cup {NoKey, NotAString}, i \in InputOutcomes}
ConnectOutcomes == ConnectFailures \cup ConnectRegistered

handshake_payload(client_key) ==
  Ev("ws", "write", 0, "register",
     IF client_key # NoKey THEN <<(<<client_key>>)>> ELSE <<>>)

\* A handshake wait bounded by the short interval whatever was supplied.
timeout_secs_short(client_key) == 5

\* The bound of the handshake wait, in seconds.
timeout_secs(client_key) == IF client_key # NoKey THEN 5 ELSE 60

connect(t, client_key, o) ==
  LET d == disconnect(t)
      fail(t1, io, e) ==
        [tv |-> t1, io |-> io, ok |-> FALSE, err |-> e, key |-> NoKey]
      opened == [d.tv EXCEPT !.ws = TRUE]
      io1 == d.io \o <<Ev("ws", "open", 0, "", <<>>)>>
      io2 == io1 \o <<handshake_payload(client_key)>>
  IN CASE o.open = "timeout" ->
            fail(d.tv, d.io \o <<Ev("ws", "open_timeout", 5, "", <<>>)>>,
                 <<"Connection timeout">>)
       [] o.open = "fail" ->
            fail(d.tv, d.io \o <<Ev("ws", "open_fail", 0, "", <<>>)>>,
                 <<"WebSocket connection failed">>)
       [] o.hsWrite # "ok" ->
            fail(opened,
                 io1 \o <<Ev("ws", "write_fail", 0, "register", <<>>)>>,
                 <<"Failed to send handshake">>)
       [] o.hs = "error" ->
            fail(opened, io2 \o <<Ev("ws", "error", 0, "register", <<>>)>>,
                 <<"Registration error",
                   IF as_str(o.reason) = NoKey THEN "Unknown"
                   ELSE o.reason>>)
       [] o.hs = "ws_error" ->
            fail(opened, io2 \o <<Ev("ws", "read_err", 0, "register", <<>>)>>,
                 <<"WebSocket error">>)
       [] o.hs = "closed" ->
            fail(opened, io2 \o <<Ev("ws", "closed", 0, "register", <<>>)>>,
                 <<"Connection closed">>)
       [] o.hs = "timeout" ->
            fail(opened,
                 io2 \o <<Ev("ws", "timeout", timeout_secs(client_key),
                            "register", <<>>)>>,
                 <<"Registration timeout - check TV for pairing prompt">>)
       [] OTHER ->
            LET up == [opened EXCEPT !.connected = TRUE]
                i == connect_input_socket(up, o.input)
            IN [tv |-> i.tv,
                io |-> io2
                       \o <<Ev("ws", "registered", 0, "register",
                               IF o.key # NoKey THEN <<(<<o.key>>)>> ELSE <<>>)>>
                       \o i.io,
                ok |-> TRUE, err |-> <<>>, key |-> as_str(o.key)]

\* ------------------------------------------------------------ read loops
\* A frame that arrives on the command channel, or the event that ends the
\* stream: a non-text frame, a text frame that is not JSON, a JSON frame of
\* type "registered" (data: its client-key), of type "error" (data: its
\* reason), the response to the request being waited for and a JSON frame
\* of any other kind (data: whether the payload holds a socket path); a
\* read error; the end of the stream.
Frame(kind, data) == [kind |-> kind, data |-> data]
Frames ==
  {Frame(k, NoKey) : k \in {"binary", "text", "read_err", "closed"}}
  \cup {Frame("registered", d) : d \in Keys \cup {NoKey}}
  \cup {Frame("error", d) : d \in Reasons \cup {NoKey, NotAString}}
  \cup {Frame("reply", d) : d \in {"plain", "path"}}
  \cup {Frame("other", "plain")}
JsonKinds == {"registered", "error", "reply", "other"}
RespOf(frame) == [NoResp EXCEPT !.socketPath = (frame.data = "path")]

\* The handshake loop that gives up at a text frame that is not JSON.
RECURSIVE read_handshake_strict(_, _)
read_handshake_strict(frames, n) ==
  IF frames = <<>>
  THEN [hs |-> "timeout", key |-> NoKey, reason |-> NoKey, read |-> n]
  ELSE
    LET f == Head(frames)
    IN CASE f.kind = "registered" ->
              [hs |-> "registered", key |-> f.data, reason |-> NoKey,
               read |-> n + 1]
         [] f.kind = "error" ->
              [hs |-> "error", key |-> NoKey, reason |-> f.data,
               read |-> n + 1]
         [] f.kind \in {"read_err", "text"} ->
              [hs |-> "ws_error", key |-> NoKey, reason |-> NoKey,
               read |-> n + 1]
         [] f.kind = "closed" ->
              [hs |-> "closed", key |-> NoKey, reason |-> NoKey,
               read |-> n + 1]
         [] OTHER -> read_handshake_strict(Tail(frames), n + 1)

\* The loop of connect that waits for the registration, on the frames that
\* arrive before its bound: what ends it, and how many frames it read.
RECURSIVE read_handshake(_, _)
read_handshake(frames, n) ==
  IF frames = <<>>
  THEN [hs |-> "timeout", key |-> NoKey, reason |-> NoKey, read |-> n]
  ELSE
    LET f == Head(frames)
    IN CASE f.kind = "registered" ->
              [hs |-> "registered", key |-> f.data, reason |-> NoKey,
               read |-> n + 1]
         [] f.kind = "error" ->
              [hs |-> "error", key |-> NoKey, reason |-> f.data,
               read |-> n + 1]
         [] f.kind = "read_err" ->
              [hs |-> "ws_error", key |-> NoKey, reason |-> NoKey,
               read |-> n + 1]
         [] f.kind = "closed" ->
              [hs |-> "closed", key |-> NoKey, reason |-> NoKey,
               read |-> n + 1]
         [] OTHER -> read_handshake(Tail(frames), n + 1)

\* The response loop that skips the frames that answer another request.
RECURSIVE read_response_own(_, _)
read_response_own(frames, n) ==
  IF frames = <<>> THEN [r |-> "timeout", resp |-> NoResp, read |-> n]
  ELSE
    LET f == Head(frames)
    IN CASE f.kind = "reply" ->
              [r |-> "resp", resp |-> RespOf(f), read |-> n + 1]
         [] f.kind = "read_err" ->
              [r |-> "read_err", resp |-> NoResp, read |-> n + 1]
         [] f.kind = "closed" ->
              [r |-> "closed", resp |-> NoResp, read |-> n + 1]
         [] OTHER -> read_response_own(Tail(frames), n + 1)

\* The loop of send_command that waits for the response, on the frames that
\* arrive within its 3 s: the first text frame that decodes as JSON is
\* returned, whatever its id ("earlier" where it is not the response to
\* this request).
RECURSIVE read_response(_, _)
read_response(frames, n) ==
  IF frames = <<>> THEN [r |-> "timeout", resp |-> NoResp, read |-> n]
  ELSE
    LET f == Head(frames)
    IN CASE f.kind = "reply" ->
              [r |-> "resp", resp |-> RespOf(f), read |-> n + 1]
         [] f.kind \in JsonKinds ->
              [r |-> "earlier", resp |-> RespOf(f), read |-> n + 1]
         [] f.kind = "read_err" ->
              [r |-> "read_err", resp |-> NoResp, read |-> n + 1]
         [] f.kind = "closed" ->
              [r |-> "closed", resp |-> NoResp, read |-> n + 1]
         [] OTHER -> read_response(Tail(frames), n + 1)

\* ------------------------------------------------------------ wake_on_lan
\* A string is the sequence of its UTF-8 bytes: an ASCII character is one
\* byte, written as the character; the two bytes of a two-byte character
\* are written "e/1" and "e/2".
HexChars ==
  <<"0", "1", "2", "3", "4", "5", "6", "7", "8", "9",
    "a", "b", "c", "d", "e", "f", "A", "B", "C", "D", "E", "F">>
Continuation == {"e/2"}

\* char::to_digit(16): 16 when the byte is not a hexadecimal digit.
to_digit(c) ==
  IF \E i \in DOMAIN HexChars : HexChars[i] = c
  THEN LET i == CHOOSE j \in DOMAIN HexChars : HexChars[j] = c
       IN IF i <= 16 THEN i - 1 ELSE i - 7
  ELSE 16

\* u8::from_str_radix(src, 16) on a slice of at most two bytes: an optional
\* leading "+", then at least one digit, every one hexadecimal.
from_str_radix(src) ==
  LET digits == IF src # <<>> /\ src[1] = "+" THEN Tail(src) ELSE src
  IN IF digits = <<>> \/ \E i \in DOMAIN digits : to_digit(digits[i]) = 16
     THEN [ok |-> FALSE, val |-> 0]
     ELSE [ok |-> TRUE,
           val |-> IF Len(digits) = 1 THEN to_digit(digits[1])
                   ELSE 16 * to_digit(digits[1]) + to_digit(digits[2])]

\* hex::decode from byte offset i - 1 on: &s[i..i + 2] panics when the
\* slice ends inside a character; the first pair that does not parse ends
\* the iteration with Err.
RECURSIVE decode_from(_, _, _)
decode_from(s, i, acc) ==
  IF i > Len(s) THEN [kind |-> "ok", bytes |-> acc]
  ELSE IF i + 2 <= Len(s) /\ s[i + 2] \in Continuation
  THEN [kind |-> "panic", bytes |-> <<>>]
  ELSE LET b == from_str_radix(SubSeq(s, i, i + 1))
       IN IF b.ok THEN decode_from(s, i + 2, Append(acc, b.val))
          ELSE [kind |-> "err", bytes |-> <<>>]

hex_decode(s) ==
  IF Len(s) % 2 # 0 THEN [kind |-> "err", bytes |-> <<>>]
  ELSE decode_from(s, 1, <<>>)

\* A clean-up that removes the colons only.
mac_clean_colons(mac) == SelectSeq(mac, LAMBDA c : c # ":")

\* mac.replace([':', '-'], "")
mac_clean(mac) == SelectSeq(mac, LAMBDA c : c \notin {":", "-"})

\* str::trim on a text given as tokens, a blank being the token " ".
RECURSIVE trim_start(_)
trim_start(s) ==
  IF s # <<>> /\ s[1] = " " THEN trim_start(Tail(s)) ELSE s
RECURSIVE trim_end(_)
trim_end(s) ==
  IF s # <<>> /\ s[Len(s)] = " " THEN trim_end(SubSeq(s, 1, Len(s) - 1))
  ELSE s
trim(s) == trim_end(trim_start(s))

\* wake_on_lan::MagicPacket::new: six bytes 0xFF, then the address sixteen
\* times.
MagicPacket(mac_bytes) ==
  [i \in 1..102 |-> IF i <= 6 THEN 255 ELSE mac_bytes[((i - 7) % 6) + 1]]

\* A datagram handed to the socket, and whether the send succeeded.
Datagram(to, port, packet, ok) ==
  [to |-> to, port |-> port, packet |-> packet, ok |-> ok]
LimitedBroadcast == <<"255.255.255.255">>
NoIp == [some |-> FALSE, ip |-> <<>>]
SomeIp(ip) == [some |-> TRUE, ip |-> ip]

\* Outcomes of the sends of one wake_on_lan: the primary send, and the
\* sends to the broadcast address on port 9 and port 7.
SendOutcomes == [primary : BOOLEAN, p9 : BOOLEAN, p7 : BOOLEAN]
AllSent == [primary |-> TRUE, p9 |-> TRUE, p7 |-> TRUE]

\* wake_on_lan whose secondary sends decide the result.
wake_on_lan_strict(mac, broadcast_ip, o) ==
  LET dec == hex_decode(mac_clean(mac))
      packet == MagicPacket(dec.bytes)
      first == Datagram(LimitedBroadcast, 9, packet, o.primary)
      ip == trim(broadcast_ip.ip)
      more == IF broadcast_ip.some /\ ip # <<>>
              THEN <<Datagram(ip, 9, packet, o.p9),
                     Datagram(ip, 7, packet, o.p7)>>
              ELSE <<>>
      fail(e) == [kind |-> "err", err |-> e, sends |-> <<>>]
  IN CASE dec.kind = "panic" ->
            [kind |-> "panic", err |-> <<>>, sends |-> <<>>]
       [] dec.kind = "err" -> fail(<<"Invalid MAC address">>)
       [] Len(dec.bytes) # 6 -> fail(<<"Invalid MAC address length">>)
       [] ~o.primary ->
            [kind |-> "err", err |-> <<"WoL send failed">>,
             sends |-> <<first>>]
       [] OTHER ->
            [kind |-> IF \A i \in DOMAIN more : more[i].ok
                      THEN "ok" ELSE "err",
             err |-> <<>>, sends |-> <<first>> \o more]

\* wake_on_lan: the result is "ok", "err", or "panic" where the slicing of
\* hex::decode panics; sends are the datagrams handed to the socket.
wake_on_lan(mac, broadcast_ip, o) ==
  LET dec == hex_decode(mac_clean(mac))
      packet == MagicPacket(dec.bytes)
      first == Datagram(LimitedBroadcast, 9, packet, o.primary)
      ip == trim(broadcast_ip.ip)
      more == IF broadcast_ip.some /\ ip # <<>>
              THEN <<Datagram(ip, 9, packet, o.p9),
                     Datagram(ip, 7, packet, o.p7)>>
              ELSE <<>>
      fail(e) == [kind |-> "err", err |-> e, sends |-> <<>>]
  IN CASE dec.kind = "panic" ->
            [kind |-> "panic", err |-> <<>>, sends |-> <<>>]
       [] dec.kind = "err" -> fail(<<"Invalid MAC address">>)
       [] Len(dec.bytes) # 6 -> fail(<<"Invalid MAC address length">>)
       [] ~o.primary ->
            [kind |-> "err", err |-> <<"WoL send failed">>,
             sends |-> <<first>>]
       [] OTHER ->
            [kind |-> "ok", err |-> <<>>, sends |-> <<first>> \o more]

\* ---------------------------------------------------------------- main.rs
VARIABLES
  tv,        \* AppState.tv: the TvConnection
  config,    \* AppState.config, reduced to the active TV's entry
  ka,        \* the keepalive tasks alive, counted by position: before a
             \* tick (sleep), before a tick after a cycle whose refresh
             \* failed (again), in the grace sleep before the retry (grace)
  lost,      \* "connection-lost" events emitted since the last call of
             \* TvConnection::connect that returned Ok
  last,      \* the operation that ran last: its argument, the session
             \* flags before it, its result and the I/O it performed
  lock,      \* the holder of the AppState.tv mutex, or "free"
  wire,      \* whether a request was written to the present command channel
             \* whose reply was not read: the reply may still arrive
  pc,        \* where each process of the lock-level specification is
  chan,      \* the lock-level log: lock acquisitions, request writes on
             \* the command channel, ends of response waits, releases
  inp,       \* the input of the function applied where a specification
             \* applies one function to inputs drawn from a bounded set
  out,       \* what that function returned and did
  held,      \* the holder of the AppState.config mutex, or "free"
  todo       \* the lock and unlock steps each task has still to take in
             \* the handler it runs

vars ==
  <<tv, config, ka, lost, last, lock, wire, pc, chan, inp, out, held, todo>>

NoInput == <<>>
NoSteps == <<>>
NoOutput == [op |-> "none"]

\* The processes that take the session lock: the UI commands, the
\* global-shortcut handler and a keepalive task.
Procs == {"ui", "shortcut", "keepalive"}

\* Button names the UI sends; the shortcut path sends fixed upper-case names.
Buttons == {<<"u", "p">>, <<"O", "k">>}

ButtonActions ==
  [up |-> <<"U", "P">>, down |-> <<"D", "O", "W", "N">>,
   left |-> <<"L", "E", "F", "T">>, right |-> <<"R", "I", "G", "H", "T">>,
   enter |-> <<"E", "N", "T", "E", "R">>, back |-> <<"B", "A", "C", "K">>,
   home |-> <<"H", "O", "M", "E">>]
\* The action ids the shortcut path is driven with.
ButtonActionIds == {"up"}
CommandActionIds == {"volume_up", "volume_down", "mute", "unmute", "power_off"}
CommandActionSample == {"volume_down", "unmute", "power_off"}
OtherActionIds == {"power_on", "unknown"}

\* was: the connected flag when the operation took the session lock.
Rec(op, arg, pre, r, ping, refresh) ==
  [op |-> op, arg |-> arg, was |-> pre.connected, ok |-> r.ok, err |-> r.err,
   io |-> r.io, ping |-> ping, refresh |-> refresh]

Fail(e) == [ok |-> FALSE, err |-> e, io |-> <<>>]
Done == [ok |-> TRUE, err |-> <<>>, io |-> <<>>]

Emit(name) == Ev("ui", "emit", 0, name, <<>>)

\* Config::load(): no TV yet, or a paired TV with its credential and MAC
\* (a TV without them is what authenticate leaves behind).
Configs ==
  {[configured |-> FALSE, client_key |-> NoKey, mac |-> NoMac]}
  \cup {[configured |-> TRUE, client_key |-> k, mac |-> m] :
          k \in Keys, m \in Macs}

Init ==
  /\ tv = new
  /\ config \in Configs
  /\ ka = [sleep |-> 0, again |-> 0, grace |-> 0]
  /\ lost = 0
  /\ last = Rec("init", <<>>, new, Done, "none", "none")
  /\ lock = "free"
  /\ wire = FALSE
  /\ pc = [p \in Procs |-> "idle"]
  /\ chan = <<>>
  /\ inp = NoInput
  /\ out = NoOutput
  /\ held = "free"
  /\ todo = NoSteps

InBound == tv'.msg_id <= MaxMsgId

\* The command channel as the device sees it. A request whose response wait
\* timed out leaves its reply unread: it may arrive later and is then the
\* first frame the next response wait reads, whose own reply is then left
\* unread in turn. RepliesAfter follows the I/O of one operation from its
\* i-th event on: w, whether a reply is unread, and ok, whether a reply to
\* an earlier request was read only when one was unread.
RECURSIVE RepliesAfter(_, _, _)
RepliesAfter(w, io, i) ==
  IF i > Len(io) THEN [w |-> w, ok |-> TRUE]
  ELSE
    LET e == io[i]
        cmd == e.ch = "ws" /\ e.uri # "register"
    IN CASE e.ch = "ws" /\ e.ev \in {"open", "close"} ->
              RepliesAfter(FALSE, io, i + 1)
         [] cmd /\ e.ev = "timeout" -> RepliesAfter(TRUE, io, i + 1)
         [] cmd /\ e.ev = "read_earlier" ->
              IF w THEN RepliesAfter(TRUE, io, i + 1)
              ELSE [w |-> w, ok |-> FALSE]
         [] OTHER -> RepliesAfter(w, io, i + 1)

\* The operation took the session lock, ran and released the lock on return.
Returns ==
  /\ lock = "free"
  /\ \E r \in {RepliesAfter(wire, last'.io, 1)} : r.ok /\ wire' = r.w
  /\ UNCHANGED <<lock, pc, chan, inp, out, held, todo>>

Alive == ka.sleep + ka.again + ka.grace

\* spawn_keepalive: a new task, waiting for its first tick.
spawn_keepalive ==
  /\ Alive < MaxKeepalive
  /\ ka' = [ka EXCEPT !.sleep = @ + 1]

NoTv ==
  /\ ~config.configured
  /\ last' = Rec("connect", <<>>, tv, Fail(<<"No TV configured">>),
                 "none", "none")
  /\ UNCHANGED <<tv, config, ka, lost>>
  /\ UNCHANGED <<lock, wire, pc, chan, inp, out, held, todo>>

\* A failed connect after which a keepalive task is spawned all the same.
ConnectFails_spawns ==
  /\ config.configured
  /\ \E o \in ConnectFailures :
       \E r \in {connect(tv, config.client_key, o)} :
          /\ tv' = r.tv
          /\ last' = Rec("connect", <<>>, tv, r, "none", "none")
  /\ spawn_keepalive
  /\ UNCHANGED <<config, lost>>
  /\ Returns

ConnectFails ==
  /\ config.configured
  /\ \E o \in ConnectFailures :
       \E r \in {connect(tv, config.client_key, o)} :
          /\ tv' = r.tv
          /\ last' = Rec("connect", <<>>, tv, r, "none", "none")
  /\ UNCHANGED <<config, ka, lost>>
  /\ Returns

ConnectOk ==
  /\ config.configured
  /\ \E o \in ConnectRegistered :
       \E r \in {connect(tv, config.client_key, o)} :
          /\ tv' = r.tv
          /\ config' = IF r.key # NoKey
                       THEN [config EXCEPT !.client_key = r.key]
                       ELSE config
          /\ last' = Rec("connect", <<>>, tv, r, "none", "none")
  /\ spawn_keepalive
  /\ lost' = 0
  /\ InBound
  /\ Returns

Connect == NoTv \/ ConnectFails \/ ConnectOk

\* authenticate: the TV entry is rewritten without credential and MAC and
\* saved; then connect without a credential; with a new key, the MAC lookup.
AuthSaved == [configured |-> TRUE, client_key |-> NoKey, mac |-> NoMac]

AuthSaveFails ==
  /\ config' = AuthSaved
  /\ last' = Rec("authenticate", <<>>, tv, Fail(<<"save failed">>),
                 "none", "none")
  /\ UNCHANGED <<tv, ka, lost>>
  /\ UNCHANGED <<lock, wire, pc, chan, inp, out, held, todo>>

\* The outcomes authenticate is driven with: a sample of the ways its
\* connect can fail, and of the ways the input channel and the MAC lookup
\* can go after a registration with or without a new key.
InputOk ==
  [cmd |-> [r |-> "resp", resp |-> [NoResp EXCEPT !.socketPath = TRUE]],
   open |-> "ok"]
Registered(k, i) ==
  [open |-> "ok", hsWrite |-> "ok", hs |-> "registered", key |-> k,
   reason |-> NoKey,
   input |-> i]
AuthFailSample ==
  {o \in ConnectFailures :
     o.open = "fail" \/ o.hs \in {"error", "timeout"}}
AuthNoKeySample == {Registered(NoKey, InputOk), Registered(NoKey, AnyInput)}
AuthKeySample ==
  {[c |-> Registered(k, InputOk), m |-> mo, saved |-> TRUE] :
      k \in Keys, mo \in MacSample}
  \cup {[c |-> Registered(k, AnyInput), m |-> mo, saved |-> TRUE] :
      k \in Keys, mo \in {[info |-> WithMac, status |-> <<Bad, TimedOut>>]}}
  \cup {[c |-> Registered(k, InputOk), m |-> mo, saved |-> FALSE] :
      k \in Keys, mo \in {[info |-> WithMac, status |-> <<Good>>]}}

\* The getPointerInputSocket request of connect timed out and its reply is
\* the first frame the MAC lookup reads.
AuthEarlier ==
  {[c |-> Registered(k, AnyInput),
    m |-> [info |-> Earlier, status |-> <<Good>>],
    saved |-> TRUE] : k \in Keys}

AuthConnectFails ==
  /\ config' = AuthSaved
  /\ \E o \in AuthFailSample :
       \E r \in {connect(tv, NoKey, o)} :
          /\ tv' = r.tv
          /\ last' = Rec("authenticate", <<>>, tv, r, "none", "none")
  /\ UNCHANGED <<ka, lost>>
  /\ Returns

AuthOkNoKey ==
  /\ \E o \in AuthNoKeySample :
       \E r \in {connect(tv, NoKey, o)} :
          /\ tv' = r.tv
          /\ last' = Rec("authenticate", <<>>, tv, r, "none", "none")
  /\ config' = AuthSaved
  /\ spawn_keepalive
  /\ lost' = 0
  /\ InBound
  /\ Returns

\* With a new key the MAC lookup runs; the final save may fail, and then
\* the error is returned and no keepalive task is spawned.
AuthOkKey ==
  /\ \E a \in AuthKeySample \cup AuthEarlier :
       \E r \in {connect(tv, NoKey, a.c)} :
       \E m \in {get_connected_mac(r.tv, a.m)} :
       LET res == IF a.saved
                  THEN [ok |-> TRUE, err |-> <<>>, io |-> r.io \o m.io]
                  ELSE [ok |-> FALSE, err |-> <<"save failed">>,
                        io |-> r.io \o m.io]
       IN /\ tv' = m.tv
          /\ config' = [AuthSaved EXCEPT
                          !.client_key = r.key,
                          !.mac = IF m.ok /\ m.mac # NoMac THEN m.mac ELSE @]
          /\ last' = Rec("authenticate", <<>>, tv, res, "none", "none")
          /\ IF a.saved THEN spawn_keepalive ELSE UNCHANGED ka
  /\ lost' = 0
  /\ InBound
  /\ Returns

Authenticate ==
  AuthSaveFails \/ AuthConnectFails \/ AuthOkNoKey \/ AuthOkKey

\* A disconnect that also erases the saved credential.
Disconnect_forgets ==
  /\ \E d \in {disconnect(tv)} :
        /\ tv' = d.tv
        /\ last' = Rec("disconnect", <<>>, tv,
                       [ok |-> TRUE, err |-> <<>>, io |-> d.io],
                       "none", "none")
  /\ config' = [config EXCEPT !.client_key = NoKey]
  /\ UNCHANGED <<ka, lost>>
  /\ Returns

Disconnect ==
  /\ \E d \in {disconnect(tv)} :
        /\ tv' = d.tv
        /\ last' = Rec("disconnect", <<>>, tv,
                       [ok |-> TRUE, err |-> <<>>, io |-> d.io],
                       "none", "none")
  /\ UNCHANGED <<config, ka, lost>>
  /\ Returns

\* get_status returns tv.connected; the returned value is last.ok.
GetStatus ==
  /\ last' = Rec("get_status", <<>>, tv,
                 [ok |-> tv.connected, err |-> <<>>, io |-> <<>>],
                 "none", "none")
  /\ UNCHANGED <<tv, config, ka, lost>>
  /\ Returns

\* The early return shared by the commands that refuse to run when the
\* session is not connected.
Refused ==
  /\ ~tv.connected
  /\ \E op \in {"send_button", "volume_up", "volume_down", "set_mute",
                "power_off"} :
       last' = Rec(op, <<>>, tv, Fail(<<"Not connected">>), "none", "none")
  /\ UNCHANGED <<tv, config, ka, lost>>
  /\ Returns

Runs(op, arg, r) ==
  /\ tv.connected
  /\ tv' = r.tv
  /\ last' = Rec(op, arg, tv, r, "none", "none")
  /\ UNCHANGED <<config, ka, lost>>
  /\ InBound
  /\ Returns

\* The outcomes of send_button that differ on session t.
ButtonOutcomesFor(t) ==
  IF t.input_ws
  THEN {[input |-> AnyInput, write |-> w] : w \in {"ok", "fail"}}
  ELSE {o \in ButtonOutcomes :
          IF o.input.open = "ok" THEN TRUE ELSE o.write = "ok"}

CommandOutcomes == CmdFail \cup CmdOk({NoResp})
CommandSample == FailSample \cup CmdOk({NoResp})

SendButton ==
  \E b \in Buttons, o \in ButtonOutcomesFor(tv) :
    \E r \in {send_button(tv, b, o)} : Runs("send_button", b, r)

VolumeUp ==
  \E o \in CommandOutcomes :
    \E r \in {volume_up(tv, o)} : Runs("volume_up", <<>>, r)

VolumeDown ==
  \E o \in CommandSample :
    \E r \in {volume_down(tv, o)} : Runs("volume_down", <<>>, r)

SetMute ==
  \E mute \in BOOLEAN, o \in CommandSample :
    \E r \in {set_mute(tv, mute, o)} : Runs("set_mute", <<>>, r)

PowerOff ==
  \E o \in CommandSample :
    \E r \in {power_off(tv, o)} : Runs("power_off", <<>>, r)

FetchMacRefused ==
  /\ \/ ~config.configured
        /\ last' = Rec("fetch_mac", <<>>, tv, Fail(<<"No TV configured">>),
                       "none", "none")
        /\ UNCHANGED <<lock, wire, pc, chan, inp, out, held, todo>>
     \/ config.configured /\ ~tv.connected
        /\ last' = Rec("fetch_mac", <<>>, tv,
                       Fail(<<"Not connected. Connect to the TV first.">>),
                       "none", "none")
        /\ Returns
  /\ UNCHANGED <<tv, config, ka, lost>>

FetchMacRuns ==
  /\ config.configured
  /\ tv.connected
  /\ \E mo \in MacSample, saved \in BOOLEAN :
       \E m \in {get_connected_mac(tv, mo)} :
       LET found == m.ok /\ m.mac # NoMac
       IN /\ found \/ saved
          /\ tv' = m.tv
          /\ config' = IF found THEN [config EXCEPT !.mac = m.mac]
                       ELSE config
          /\ last' = Rec("fetch_mac", <<>>, tv,
                         [ok |-> found /\ saved,
                          err |-> IF ~m.ok
                                  THEN <<"Failed to get MAC address">>
                                       \o m.err
                                  ELSE IF ~found
                                  THEN <<"Could not find MAC address">>
                                  ELSE IF ~saved THEN <<"save failed">>
                                  ELSE <<>>,
                          io |-> m.io],
                         "none", "none")
  /\ UNCHANGED <<ka, lost>>
  /\ InBound
  /\ Returns

FetchMac == FetchMacRefused \/ FetchMacRuns

\* run_action_impl: the global-shortcut path; it locks the session and calls
\* the TvConnection method of the action.
RunButton ==
  /\ \E id \in ButtonActionIds, o \in ButtonOutcomesFor(tv) :
       \E r \in {send_button(tv, ButtonActions[id], o)} :
          /\ tv' = r.tv
          /\ last' = Rec("run_action", <<id>>, tv, r, "none", "none")
  /\ UNCHANGED <<config, ka, lost>>
  /\ InBound
  /\ Returns

RunCommand ==
  /\ \E id \in CommandActionSample,
        o \in IF ~tv.ws THEN {Good}
              ELSE IF wire THEN CommandSample \cup {Earlier}
              ELSE CommandSample :
       \E r \in {CASE id = "volume_up" -> volume_up(tv, o)
                  [] id = "volume_down" -> volume_down(tv, o)
                  [] id = "mute" -> set_mute(tv, TRUE, o)
                  [] id = "unmute" -> set_mute(tv, FALSE, o)
                  [] OTHER -> power_off(tv, o)} :
          /\ tv' = r.tv
          /\ last' = Rec("run_action", <<id>>, tv, r, "none", "none")
  /\ UNCHANGED <<config, ka, lost>>
  /\ InBound
  /\ Returns

\* power_on, wake_streaming_device and unknown ids release or never use the
\* session.
RunOther ==
  /\ \E id \in OtherActionIds :
       last' = Rec("run_action", <<id>>, tv, Done, "none", "none")
  /\ UNCHANGED <<tv, config, ka, lost>>
  /\ Returns

RunAction == RunButton \/ RunCommand \/ RunOther

\* A task about to tick: one that sleeps after a clean cycle or after a
\* cycle whose refresh failed.
Ticking == {p \in {"sleep", "again"} : ka[p] > 0}

\* One iteration of the keepalive loop, from the tick to the next sleep.
KaExit ==
  /\ ~tv.connected
  /\ \E p \in Ticking :
       /\ ka' = [ka EXCEPT ![p] = @ - 1]
       /\ last' = Rec("keepalive_tick", <<p>>, tv, Done, "skipped", "none")
  /\ UNCHANGED <<tv, config, lost>>
  /\ Returns

\* A tick that pings without looking at the connected flag.
KaPingFails_unguarded ==
  /\ \E p \in Ticking, o \in FailSample :
       \E r \in {keepalive_ping(tv, o)} :
          /\ tv' = r.tv
          /\ ka' = [ka EXCEPT ![p] = @ - 1]
          /\ last' = Rec("keepalive_tick", <<p>>, tv,
                         [r EXCEPT !.io = @ \o <<Emit("connection-lost")>>],
                         "failed", "none")
  /\ lost' = lost + 1
  /\ UNCHANGED config
  /\ InBound
  /\ Returns

KaPingFails ==
  /\ tv.connected
  /\ \E p \in Ticking, o \in FailSample :
       \E r \in {keepalive_ping(tv, o)} :
          /\ tv' = r.tv
          /\ ka' = [ka EXCEPT ![p] = @ - 1]
          /\ last' = Rec("keepalive_tick", <<p>>, tv,
                         [r EXCEPT !.io = @ \o <<Emit("connection-lost")>>],
                         "failed", "none")
  /\ lost' = lost + 1
  /\ UNCHANGED config
  /\ InBound
  /\ Returns

KaRefresh ==
  /\ tv.connected
  /\ \E p \in Ticking, ro \in InputOutcomes :
       \E g \in {keepalive_ping(tv, Good)} :
       \E r \in {refresh_input_socket(g.tv, ro)} :
       LET to == IF r.ok THEN "sleep" ELSE "grace"
       IN /\ tv' = r.tv
          /\ ka' = [q \in DOMAIN ka |->
                      ka[q] - (IF q = p THEN 1 ELSE 0)
                            + (IF q = to THEN 1 ELSE 0)]
          /\ last' = Rec("keepalive_tick", <<p>>, tv,
                         [ok |-> TRUE, err |-> <<>>, io |-> g.io \o r.io],
                         "ok", IF r.ok THEN "ok" ELSE "failed")
  /\ UNCHANGED <<config, lost>>
  /\ InBound
  /\ Returns

KeepaliveTick == KaExit \/ KaPingFails \/ KaRefresh

\* After the 3 s grace sleep: the retry, only when still connected.
\* A retry that, finding the session disconnected, connects it again.
KaRetrySkipped_reconnects ==
  /\ ka.grace > 0
  /\ ~tv.connected
  /\ config.configured
  /\ \E o \in {Registered(NoKey, AnyInput)} :
       \E r \in {connect(tv, config.client_key, o)} :
          /\ tv' = r.tv
          /\ last' = Rec("keepalive_retry", <<>>, tv, r, "none", "none")
  /\ ka' = [ka EXCEPT !.grace = @ - 1, !.again = @ + 1]
  /\ UNCHANGED <<config, lost>>
  /\ InBound
  /\ Returns

KaRetrySkipped ==
  /\ ka.grace > 0
  /\ ~tv.connected
  /\ ka' = [ka EXCEPT !.grace = @ - 1, !.again = @ + 1]
  /\ last' = Rec("keepalive_retry", <<>>, tv, Done, "none", "none")
  /\ UNCHANGED <<tv, config, lost>>
  /\ Returns

\* A retry that does not look at the connected flag.
KaRetryRuns_unguarded ==
  /\ ka.grace > 0
  /\ \E ro \in InputOutcomes :
       \E r \in {refresh_input_socket(tv, ro)} :
          /\ tv' = r.tv
          /\ last' = Rec("keepalive_retry", <<>>, tv,
                         [ok |-> TRUE, err |-> <<>>, io |-> r.io],
                         "none", IF r.ok THEN "ok" ELSE "failed")
  /\ ka' = [ka EXCEPT !.grace = @ - 1, !.again = @ + 1]
  /\ UNCHANGED <<config, lost>>
  /\ InBound
  /\ Returns

KaRetryRuns ==
  /\ ka.grace > 0
  /\ tv.connected
  /\ \E ro \in InputOutcomes :
       \E r \in {refresh_input_socket(tv, ro)} :
          /\ tv' = r.tv
          /\ last' = Rec("keepalive_retry", <<>>, tv,
                         [ok |-> TRUE, err |-> <<>>, io |-> r.io],
                         "none", IF r.ok THEN "ok" ELSE "failed")
  /\ ka' = [ka EXCEPT !.grace = @ - 1, !.again = @ + 1]
  /\ UNCHANGED <<config, lost>>
  /\ InBound
  /\ Returns

KeepaliveRetry == KaRetrySkipped \/ KaRetryRuns

Next ==
  \/ Connect
  \/ Authenticate
  \/ Disconnect
  \/ GetStatus
  \/ Refused
  \/ SendButton
  \/ VolumeUp
  \/ VolumeDown
  \/ SetMute
  \/ PowerOff
  \/ FetchMac
  \/ RunAction
  \/ KeepaliveTick
  \/ KeepaliveRetry

Spec == Init /\ [][Next]_vars

\* ------------------------------------------------- a device that goes silent
\* Spec lets every wait of an operation end. connect_input_socket opens the
\* socket path with connect_ws and no timeout around it, so against a device
\* that stops answering while that channel is being opened the operation
\* stays in the wait, holding the session lock.
InputPath ==
  [cmd |-> [r |-> "resp", resp |-> [NoResp EXCEPT !.socketPath = TRUE]],
   open |-> "fail"]
\* The I/O of an operation whose last step, the opening of the input
\* channel, has not ended.
Waiting(io) ==
  [io EXCEPT ![Len(io)] = Ev("input", "open_wait", 0, "", <<>>)]
Pending(io) == [ok |-> FALSE, err |-> <<>>, io |-> Waiting(io)]

ConnectHangs ==
  /\ lock = "free"
  /\ config.configured
  /\ \E r \in {connect(tv, config.client_key, Registered(NoKey, InputPath))} :
        /\ tv' = r.tv
        /\ last' = Rec("connect", <<>>, tv, Pending(r.io), "none", "none")
  /\ lock' = "ui"
  /\ wire' = FALSE
  /\ UNCHANGED <<config, ka, lost, pc, chan, inp, out, held, todo>>
  /\ InBound

ButtonHangs ==
  /\ lock = "free"
  /\ tv.ws /\ ~tv.input_ws
  /\ \E id \in ButtonActionIds :
       \E r \in {connect_input_socket(tv, InputPath)} :
          /\ tv' = r.tv
          /\ last' = Rec("run_action", <<id>>, tv, Pending(r.io),
                         "none", "none")
  /\ lock' = "shortcut"
  /\ UNCHANGED <<config, ka, lost, wire, pc, chan, inp, out, held, todo>>
  /\ InBound

KaRefreshHangs ==
  /\ lock = "free"
  /\ tv.connected
  /\ \E p \in Ticking :
       \E g \in {keepalive_ping(tv, Good)} :
       \E r \in {refresh_input_socket(g.tv, InputPath)} :
          /\ tv' = r.tv
          /\ last' = Rec("keepalive_tick", <<p>>, tv, Pending(g.io \o r.io),
                         "ok", "none")
  /\ lock' = "keepalive"
  /\ UNCHANGED <<config, ka, lost, wire, pc, chan, inp, out, held, todo>>
  /\ InBound

InputOpenHangs == ConnectHangs \/ ButtonHangs \/ KaRefreshHangs

WaitNext == Next \/ InputOpenHangs

WaitSpec == Init /\ [][WaitNext]_vars

\* The keepalive tasks under the runtime's scheduling: the 25 s interval of
\* a sleeping task and the 3 s sleep of a task that retries both elapse,
\* and the session mutex, which is fair, is granted to a task once free.
KeepaliveSpec ==
  WaitSpec /\ WF_vars(KeepaliveTick) /\ WF_vars(KeepaliveRetry)

\* ----------------------------------------------------- the session lock
\* Spec runs each handler as one step, which is what the AppState.tv mutex
\* is there to guarantee. LockSpec models the mutex itself: the UI, the
\* global-shortcut handler and one keepalive task take the lock, write a
\* request, wait for its response and drop the lock as separate steps, so
\* that the steps of different processes interleave wherever the lock
\* lets them. pc[p] is the place of p in its handler:
\*   idle          outside a handler; the keepalive task: in its 25 s sleep
\*   locked        holds the lock, at the start of the handler's body
\*   sent          wrote a request (a command, the ping), awaits the response
\*   refresh       keepalive: the ping was answered, about to refresh
\*   refresh_sent  keepalive: wrote the refresh's request
\*   failed        keepalive: the refresh failed, about to drop the lock
\*   grace         keepalive: in the 3 s sleep before the retry
\*   retry         keepalive: took the lock again after the grace sleep
\*   retry_sent    keepalive: wrote the retry's request
\*   lost          keepalive: the ping failed, "connection-lost" emitted
\*   exit          keepalive: found connected = false, about to break
\*   got           the body is over, about to return and drop the lock
\*   done          keepalive: the task ended
Held ==
  {"locked", "sent", "refresh", "refresh_sent", "failed", "retry",
   "retry_sent", "lost", "exit", "got"}

Log(ev, by, id) == [ev |-> ev, by |-> by, id |-> id]

\* The session right after a successful connect, its keepalive task spawned.
LockInit ==
  /\ tv = connect(new, NoKey, Registered(NoKey, InputOk)).tv
  /\ config = [configured |-> TRUE, client_key |-> NoKey, mac |-> NoMac]
  /\ ka = [sleep |-> 1, again |-> 0, grace |-> 0]
  /\ lost = 0
  /\ last = Rec("init", <<>>, new, Done, "none", "none")
  /\ lock = "free"
  /\ wire = FALSE
  /\ pc = [p \in Procs |-> "idle"]
  /\ chan = <<>>
  /\ inp = NoInput
  /\ out = NoOutput
  /\ held = "free"
  /\ todo = NoSteps

Goto(p, label) == pc' = [pc EXCEPT ![p] = label]
Rest == UNCHANGED <<config, ka, lost, last, wire, inp, out, held, todo>>

\* state.tv.lock().await: granted when no one holds the lock.
Acquire_ungranted(p) ==
  /\ pc[p] \in {"idle", "grace"}
  /\ Len(chan) < MaxLog
  /\ lock' = p
  /\ Goto(p, IF pc[p] = "grace" THEN "retry" ELSE "locked")
  /\ chan' = Append(chan, Log("acquire", p, 0))
  /\ UNCHANGED tv
  /\ Rest

Acquire(p) ==
  /\ pc[p] \in {"idle", "grace"}
  /\ lock = "free"
  /\ Len(chan) < MaxLog
  /\ lock' = p
  /\ Goto(p, IF pc[p] = "grace" THEN "retry" ELSE "locked")
  /\ chan' = Append(chan, Log("acquire", p, 0))
  /\ UNCHANGED tv
  /\ Rest

\* The early returns: a UI command, a keepalive tick or a retry that finds
\* connected = false; a shortcut command that finds no command channel.
Skip(p) ==
  /\ \/ p = "ui" /\ pc[p] = "locked" /\ ~tv.connected /\ Goto(p, "got")
     \/ p = "shortcut" /\ pc[p] = "locked" /\ ~tv.ws /\ Goto(p, "got")
     \/ p = "keepalive" /\ pc[p] = "locked" /\ ~tv.connected
        /\ Goto(p, "exit")
     \/ p = "keepalive" /\ pc[p] = "retry" /\ ~tv.connected
        /\ Goto(p, "got")
  /\ UNCHANGED <<tv, lock, chan>>
  /\ Rest

\* send_command up to ws.send: the request is written. The shortcut path
\* does not look at connected; refresh_input_socket first takes the input
\* channel.
Write_unlocks(p) ==
  /\ pc[p] \in {"locked", "refresh", "retry"}
  /\ tv.ws
  /\ p # "shortcut" => tv.connected
  /\ Len(chan) < MaxLog
  /\ tv' = [tv EXCEPT !.msg_id = @ + 1,
                      !.input_ws = IF pc[p] = "locked" THEN @ ELSE FALSE]
  /\ chan' = Append(chan, Log("write", p, tv.msg_id + 1))
  /\ Goto(p, CASE pc[p] = "locked" -> "sent"
                [] pc[p] = "refresh" -> "refresh_sent"
                [] OTHER -> "retry_sent")
  /\ lock' = "free"
  /\ Rest

Write(p) ==
  /\ pc[p] \in {"locked", "refresh", "retry"}
  /\ tv.ws
  /\ p # "shortcut" => tv.connected
  /\ Len(chan) < MaxLog
  /\ tv' = [tv EXCEPT !.msg_id = @ + 1,
                      !.input_ws = IF pc[p] = "locked" THEN @ ELSE FALSE]
  /\ chan' = Append(chan, Log("write", p, tv.msg_id + 1))
  /\ Goto(p, CASE pc[p] = "locked" -> "sent"
                [] pc[p] = "refresh" -> "refresh_sent"
                [] OTHER -> "retry_sent")
  /\ UNCHANGED lock
  /\ Rest

\* send_command whose ws.send fails: the id is taken, no frame is written,
\* connected = false, and the call returns the error.
WriteFails(p) ==
  /\ pc[p] \in {"locked", "refresh", "retry"}
  /\ tv.ws
  /\ p # "shortcut" => tv.connected
  /\ Len(chan) < MaxLog
  /\ tv' = [tv EXCEPT !.msg_id = @ + 1, !.connected = FALSE,
                      !.input_ws = IF pc[p] = "locked" THEN @ ELSE FALSE]
  /\ chan' = Append(chan, Log("write_fail", p, tv.msg_id + 1))
  /\ Goto(p, CASE pc[p] = "locked" /\ p = "keepalive" -> "lost"
                [] pc[p] = "refresh" -> "failed"
                [] OTHER -> "got")
  /\ UNCHANGED lock
  /\ Rest

\* send_command from the response wait on: the reply, or the 3 s timeout,
\* which sets connected = false. The keepalive goes on to the refresh after
\* an answered ping and ends after a failed one; a refresh fails when its
\* request does or when the socket path cannot be opened.
Await(p) ==
  /\ pc[p] \in {"sent", "refresh_sent", "retry_sent"}
  /\ \E o \in {"resp", "timeout"}, opened \in BOOLEAN :
       /\ (pc[p] = "sent" \/ o = "timeout") => opened
       /\ tv' = IF o = "timeout" THEN [tv EXCEPT !.connected = FALSE]
                ELSE IF pc[p] = "sent" THEN tv
                ELSE [tv EXCEPT !.input_ws = opened]
       /\ Goto(p, CASE pc[p] = "sent" /\ p # "keepalive" -> "got"
                     [] pc[p] = "sent" /\ o = "resp" -> "refresh"
                     [] pc[p] = "sent" -> "lost"
                     [] pc[p] = "refresh_sent" /\ o = "resp" /\ opened -> "got"
                     [] pc[p] = "refresh_sent" -> "failed"
                     [] OTHER -> "got")
  /\ chan' = Append(chan, Log("end", p, tv.msg_id))
  /\ UNCHANGED lock
  /\ Rest

\* A disconnect that starts the request ids over.
DisconnectBody_resets(p) ==
  /\ p = "ui" /\ pc[p] = "locked"
  /\ tv' = [disconnect(tv).tv EXCEPT !.msg_id = 0]
  /\ Goto(p, "got")
  /\ UNCHANGED <<lock, chan>>
  /\ Rest

\* The disconnect command's body.
DisconnectBody(p) ==
  /\ p = "ui" /\ pc[p] = "locked"
  /\ tv' = disconnect(tv).tv
  /\ Goto(p, "got")
  /\ UNCHANGED <<lock, chan>>
  /\ Rest

\* The connect command's body, registered: it writes the
\* getPointerInputSocket request and waits for its reply, and spawns a
\* keepalive task (this specification follows one task: a new one takes the
\* place of one that has ended).
ConnectBody(p) ==
  /\ p = "ui" /\ pc[p] = "locked"
  /\ Len(chan) + 1 < MaxLog
  /\ tv' = connect(tv, NoKey, Registered(NoKey, InputOk)).tv
  /\ chan' = chan \o <<Log("write", p, tv'.msg_id), Log("end", p, tv'.msg_id)>>
  /\ pc' = [pc EXCEPT ![p] = "got",
                      !["keepalive"] = IF @ = "done" THEN "idle" ELSE @]
  /\ UNCHANGED lock
  /\ Rest

\* A keepalive task that goes into the grace sleep with the lock.
Release_sleeps_locked(p) ==
  /\ pc[p] \in {"got", "failed", "lost", "exit"}
  /\ lock' = IF pc[p] = "failed" THEN lock ELSE "free"
  /\ Goto(p, CASE pc[p] = "failed" -> "grace"
                [] pc[p] \in {"lost", "exit"} -> "done"
                [] OTHER -> "idle")
  /\ UNCHANGED <<tv, chan>>
  /\ Rest

\* The guard is dropped: at the return of a command, at the end of a
\* keepalive iteration, by drop(tv) before the grace sleep, at the break.
Release(p) ==
  /\ pc[p] \in {"got", "failed", "lost", "exit"}
  /\ lock' = "free"
  /\ Goto(p, CASE pc[p] = "failed" -> "grace"
                [] pc[p] \in {"lost", "exit"} -> "done"
                [] OTHER -> "idle")
  /\ UNCHANGED <<tv, chan>>
  /\ Rest

LockNext ==
  \E p \in Procs :
    \/ Acquire(p)
    \/ Skip(p)
    \/ Write(p)
    \/ WriteFails(p)
    \/ Await(p)
    \/ DisconnectBody(p)
    \/ ConnectBody(p)
    \/ Release(p)

LockSpec == LockInit /\ [][LockNext]_vars

\* ------------------------------------------------------------ wake packets
\* WolSpec applies wake_on_lan and the two Power On triggers to MAC strings
\* built from two-character groups: groups of hexadecimal digits, and at
\* most one group that a MAC may not hold (a sign, a letter that is no
\* digit, a two-byte character at an even and at an odd byte offset, a lone
\* digit), which comes first or after four groups or more, joined by ":",
\* by "-" or by nothing.
GoodGroups == {<<"a", "0">>, <<"1", "F">>}
BadGroups ==
  {<<"+", "7">>, <<"g", "1">>, <<"e/1", "e/2">>,
   <<"a", "e/1", "e/2", "b">>, <<"5">>}
Seps == {<<>>, <<":">>, <<"-">>}

RECURSIVE Join(_, _)
Join(groups, sep) ==
  IF groups = <<>> THEN <<>>
  ELSE IF Len(groups) = 1 THEN groups[1]
  ELSE groups[1] \o sep \o Join(Tail(groups), sep)

MacOf(i) == Join(i.groups, i.sep)

\* The broadcast addresses given: none, a blank one, one to be trimmed.
Broadcasts == {NoIp, SomeIp(<<" ">>), SomeIp(<<" ", "10.0.0.255", " ">>)}

\* The streaming device of the configuration: none, a Roku, or a device
\* woken by a wake packet.
Devices == {"none", "roku", "wol"}
\* wake_streaming_on_power_on and the streaming device, as configured.
Streaming ==
  {[on |-> TRUE, device |-> "roku"], [on |-> TRUE, device |-> "wol"],
   [on |-> FALSE, device |-> "roku"], [on |-> TRUE, device |-> "none"]}
DeviceMac == <<"0", "0", "1", "1", "2", "2", "3", "3", "4", "4", "5", "5">>

\* wake_streaming_device_impl: reach is the outcome of the Roku request.
wake_streaming_device_impl(device, reach, o) ==
  IF device = "wol" THEN wake_on_lan(DeviceMac, NoIp, o)
  ELSE [kind |-> IF reach THEN "ok" ELSE "err",
        err |-> IF reach THEN <<>> ELSE <<"Could not reach Roku">>,
        sends |-> <<Datagram(<<"roku">>, 8060, <<>>, reach)>>]

WolInit ==
  /\ tv = new
  /\ config = [configured |-> TRUE, client_key |-> NoKey, mac |-> NoMac]
  /\ ka = [sleep |-> 0, again |-> 0, grace |-> 0]
  /\ lost = 0
  /\ last = Rec("init", <<>>, new, Done, "none", "none")
  /\ lock = "free"
  /\ wire = FALSE
  /\ pc = [p \in Procs |-> "idle"]
  /\ chan = <<>>
  /\ inp \in {[groups |-> <<>>, sep |-> sep] : sep \in Seps}
  /\ out = NoOutput
  /\ held = "free"
  /\ todo = NoSteps

Session == <<tv, config, ka, lost, last, lock, wire, pc, chan, held, todo>>

AddGroup ==
  /\ out = NoOutput
  /\ Len(inp.groups) < MaxGroups
  /\ \E g \in GoodGroups \cup BadGroups :
       /\ g \in BadGroups =>
            /\ \A i \in DOMAIN inp.groups : inp.groups[i] \in GoodGroups
            /\ Len(inp.groups) \notin 1..3
       /\ inp' = [inp EXCEPT !.groups = Append(@, g)]
  /\ UNCHANGED out
  /\ UNCHANGED Session

Ran(op, streaming, device, broadcast, wake, device_wake) ==
  [op |-> op, streaming |-> streaming, device |-> device,
   broadcast |-> broadcast, wake |-> wake, device_wake |-> device_wake,
   kind |-> wake.kind]

\* wake_on_lan applied to the MAC string and a broadcast address.
WakeOnLan ==
  /\ out = NoOutput
  /\ \E b \in Broadcasts, o \in SendOutcomes :
       \E r \in {wake_on_lan(MacOf(inp), b, o)} :
         out' = Ran("wake_on_lan", FALSE, "none", b, r, <<>>)
  /\ UNCHANGED inp
  /\ UNCHANGED Session

\* The power_on command, the MAC string being the TV's saved address.
PowerOn ==
  /\ out = NoOutput
  /\ \E c \in Streaming, reach \in BOOLEAN, primary \in BOOLEAN :
       \E r \in {wake_on_lan(MacOf(inp), NoIp,
                              [AllSent EXCEPT !.primary = primary])} :
         out' = Ran("power_on", c.on, c.device, NoIp, r,
                    IF r.kind = "ok" /\ c.on /\ c.device # "none"
                    THEN <<wake_streaming_device_impl(c.device, reach,
                                                      AllSent)>>
                    ELSE <<>>)
  /\ UNCHANGED inp
  /\ UNCHANGED Session

\* char::is_ascii_hexdigit
is_ascii_hexdigit(c) == \E i \in DOMAIN HexChars : HexChars[i] = c

\* as_bytes().chunks(2) ... join(":")
RECURSIVE chunks_join(_)
chunks_join(s) ==
  IF Len(s) <= 2 THEN s
  ELSE SubSeq(s, 1, 2) \o <<":">> \o chunks_join(SubSeq(s, 3, Len(s)))

\* set_mac that checks the length only.
set_mac_unchecked(mac, stored, configured, saved) ==
  LET clean == SelectSeq(mac, LAMBDA c : c \notin {":", "-", " "})
  IN IF Len(clean) # 12
     THEN [ok |-> FALSE, err |-> <<"Invalid MAC address format">>,
           mac |-> stored]
     ELSE IF ~configured
     THEN [ok |-> FALSE, err |-> <<"No TV configured">>, mac |-> stored]
     ELSE [ok |-> saved, err |-> IF saved THEN <<>> ELSE <<"save failed">>,
           mac |-> chunks_join(clean)]

\* set_mac: the string given, the MAC stored for the active TV, whether a
\* TV is configured and whether the configuration could be saved.
set_mac(mac, stored, configured, saved) ==
  LET clean == SelectSeq(mac, LAMBDA c : c \notin {":", "-", " "})
  IN IF Len(clean) # 12 \/ \E i \in DOMAIN clean : ~is_ascii_hexdigit(clean[i])
     THEN [ok |-> FALSE, err |-> <<"Invalid MAC address format">>,
           mac |-> stored]
     ELSE IF ~configured
     THEN [ok |-> FALSE, err |-> <<"No TV configured">>, mac |-> stored]
     ELSE [ok |-> saved, err |-> IF saved THEN <<>> ELSE <<"save failed">>,
           mac |-> chunks_join(clean)]

\* The configuration set_mac finds: the MAC stored for the active TV (none,
\* or an address saved earlier), whether a TV is configured and whether the
\* configuration can be saved.
SetMacConfigs ==
  {[stored |-> <<>>, configured |-> TRUE, saved |-> TRUE],
   [stored |-> chunks_join(DeviceMac), configured |-> TRUE, saved |-> TRUE],
   [stored |-> chunks_join(DeviceMac), configured |-> FALSE, saved |-> TRUE],
   [stored |-> <<>>, configured |-> TRUE, saved |-> FALSE]}

\* The set_mac command on the MAC string, which the user may also have
\* typed with blanks between the groups, and wake_on_lan on the MAC then
\* stored.
SetMac ==
  /\ out = NoOutput
  /\ \E c \in SetMacConfigs,
        typed \in {MacOf(inp)}
                  \cup {Join(inp.groups, <<" ">>) : x \in {inp.sep} \cap {<<>>}} :
       \E r \in {set_mac(typed, c.stored, c.configured, c.saved)} :
       \E w \in {wake_on_lan(r.mac, NoIp, AllSent)} :
         out' = [op |-> "set_mac", typed |-> typed, before |-> c.stored,
                 configured |-> c.configured, set |-> r, wake |-> w]
  /\ UNCHANGED inp
  /\ UNCHANGED Session

\* The "power_on" action of run_action_impl.
RunPowerOn ==
  /\ out = NoOutput
  /\ \E c \in Streaming, primary \in BOOLEAN :
       \E r \in {wake_on_lan(MacOf(inp), NoIp,
                              [AllSent EXCEPT !.primary = primary])} :
         out' = Ran("run_action", c.on, c.device, NoIp, r, <<>>)
  /\ UNCHANGED inp
  /\ UNCHANGED Session

WolNext == AddGroup \/ WakeOnLan \/ PowerOn \/ RunPowerOn \/ SetMac

WolSpec == WolInit /\ [][WolNext]_vars

\* ---------------------------------------------------------------- frames
\* FrameSpec applies the handshake of connect and the response wait of
\* send_command to the sequences of frames that may arrive.
FrameInit ==
  /\ tv = new
  /\ config = [configured |-> TRUE, client_key |-> NoKey, mac |-> NoMac]
  /\ ka = [sleep |-> 0, again |-> 0, grace |-> 0]
  /\ lost = 0
  /\ last = Rec("init", <<>>, new, Done, "none", "none")
  /\ lock = "free"
  /\ wire = FALSE
  /\ pc = [p \in Procs |-> "idle"]
  /\ chan = <<>>
  /\ inp = <<>>
  /\ out = NoOutput
  /\ held = "free"
  /\ todo = NoSteps

AddFrame ==
  /\ out = NoOutput
  /\ Len(inp) < MaxFrames
  /\ \E f \in Frames : inp' = Append(inp, f)
  /\ UNCHANGED out
  /\ UNCHANGED Session

\* connect, the frames being those that arrive after the register frame.
Handshake ==
  /\ out = NoOutput
  /\ \E credential \in Keys \cup {NoKey}, input \in {InputOk, AnyInput} :
       \E h \in {read_handshake(inp, 0)} :
       \E r \in {connect(new, credential,
                          [open |-> "ok", hsWrite |-> "ok", hs |-> h.hs,
                           key |-> h.key, reason |-> h.reason,
                           input |-> input])} :
         out' = [op |-> "connect", credential |-> credential, read |-> h.read,
                 ok |-> r.ok, err |-> r.err, io |-> r.io, tv |-> r.tv,
                 resp |-> NoResp]
  /\ UNCHANGED inp
  /\ UNCHANGED Session

\* send_command on a connected session, the frames being those that arrive
\* after its request.
SendCommand ==
  /\ out = NoOutput
  /\ \E h \in {read_response(inp, 0)} :
     \E r \in {send_command(connect(new, NoKey,
                                     Registered(NoKey, InputOk)).tv,
                             UriVolumeUp, [r |-> h.r, resp |-> h.resp])} :
         out' = [op |-> "send_command", credential |-> NoKey,
                 read |-> h.read, ok |-> r.ok, err |-> r.err, io |-> r.io,
                 tv |-> r.tv, resp |-> r.resp]
  /\ UNCHANGED inp
  /\ UNCHANGED Session

FrameNext == AddFrame \/ Handshake \/ SendCommand

FrameSpec == FrameInit /\ [][FrameNext]_vars

\* ------------------------------------------------------------- MAC lookup
\* MacSpec applies get_network_status and get_connected_mac to the answers
\* a device may give: to the getinfo request, and to each status endpoint
\* that gets queried.
EndpointGood ==
  CmdOk({[NoResp EXCEPT !.wifi_connected = a, !.wired_connected = b] :
           a \in BOOLEAN, b \in BOOLEAN})
EndpointErr ==
  CmdOk({[NoResp EXCEPT !.error = TRUE, !.reason = x] :
           x \in {StatusError, NotAString}})
StatusAnswers ==
  {<<a>> : a \in CmdFail \cup EndpointGood}
  \cup {<<a, b>> : a \in EndpointErr, b \in CmdFail \cup EndpointGood}
  \cup {<<a, b, c>> : a \in EndpointErr, b \in EndpointErr,
                      c \in CmdFail \cup EndpointGood \cup EndpointErr}
InfoAnswers ==
  CmdFail
  \cup CmdOk({[NoResp EXCEPT !.wifi_mac = w, !.wired_mac = e] :
                w \in Macs \cup {NoMac}, e \in {WiredMac, NoMac}})

MacInit ==
  /\ tv = connect(new, NoKey, Registered(NoKey, InputOk)).tv
  /\ config = [configured |-> TRUE, client_key |-> NoKey, mac |-> NoMac]
  /\ ka = [sleep |-> 0, again |-> 0, grace |-> 0]
  /\ lost = 0
  /\ last = Rec("init", <<>>, new, Done, "none", "none")
  /\ lock = "free"
  /\ wire = FALSE
  /\ pc = [p \in Procs |-> "idle"]
  /\ chan = <<>>
  /\ inp \in [info : InfoAnswers, status : StatusAnswers]
  /\ out = NoOutput
  /\ held = "free"
  /\ todo = NoSteps

GetNetworkStatus ==
  /\ out = NoOutput
  /\ \E r \in {get_network_status(tv, inp.status)} :
       out' = [op |-> "get_network_status", ok |-> r.ok, err |-> r.err,
               io |-> r.io, tv |-> r.tv, resp |-> r.resp, mac |-> NoMac]
  /\ UNCHANGED inp
  /\ UNCHANGED Session

GetConnectedMac ==
  /\ out = NoOutput
  /\ \E r \in {get_connected_mac(tv, inp)} :
       out' = [op |-> "get_connected_mac", ok |-> r.ok, err |-> r.err,
               io |-> r.io, tv |-> r.tv, resp |-> NoResp, mac |-> r.mac]
  /\ UNCHANGED inp
  /\ UNCHANGED Session

MacNext == GetNetworkStatus \/ GetConnectedMac

MacSpec == MacInit /\ [][MacNext]_vars

\* ------------------------------------------------------------- two locks
\* OrderSpec follows the two mutexes of AppState, tv (lock) and config
\* (held), through the handlers: each task runs one handler at a time, as
\* the sequence of lock and unlock steps of one path through its code. Two
\* UI commands may run at once. Both mutexes are fair: a waiter is served
\* in its turn.
Tasks == {"ui", "ui_2", "shortcut", "keepalive"}
LockConfigStep == "config.lock"
DropConfigStep == "drop(config)"
LockTvStep == "tv.lock"
DropTvStep == "drop(tv)"
ConfigOnly == <<LockConfigStep, DropConfigStep>>
TvOnly == <<LockTvStep, DropTvStep>>
TvWithConfig ==
  <<LockTvStep, LockConfigStep, DropConfigStep, DropTvStep>>

\* connect that keeps the config guard until it has the session.
connect_steps_nested ==
  {ConfigOnly,
   <<LockConfigStep, LockTvStep, DropConfigStep, DropTvStep>>,
   <<LockConfigStep, LockTvStep, DropConfigStep, LockConfigStep,
     DropConfigStep, DropTvStep>>}

\* connect: no TV configured; tv.connect fails or returns no key; a new
\* key is saved.
connect_steps ==
  {ConfigOnly, ConfigOnly \o TvOnly, ConfigOnly \o TvWithConfig}

\* authenticate: the save fails; tv.connect fails or returns no key; the
\* key and the MAC are saved.
authenticate_steps ==
  {ConfigOnly, ConfigOnly \o TvOnly, ConfigOnly \o TvWithConfig}

\* fetch_mac: no TV configured; not connected or no MAC; the MAC is saved.
fetch_mac_steps ==
  {ConfigOnly, ConfigOnly \o TvOnly, ConfigOnly \o TvWithConfig}

\* disconnect, get_status and the commands; power_on and the settings.
command_steps == {TvOnly, ConfigOnly}

\* run_action_impl: a button or command; power_on and
\* wake_streaming_device, which drop the session before taking the config.
run_action_steps == {TvOnly, TvOnly \o ConfigOnly}

\* One iteration of the keepalive loop: without and with the retry.
keepalive_steps == {TvOnly, TvOnly \o TvOnly}

StepsOf(p) ==
  CASE p = "shortcut" -> run_action_steps
    [] p = "keepalive" -> keepalive_steps
    [] OTHER -> connect_steps \cup authenticate_steps \cup fetch_mac_steps
                \cup command_steps

OrderInit ==
  /\ tv = new
  /\ config = [configured |-> TRUE, client_key |-> NoKey, mac |-> NoMac]
  /\ ka = [sleep |-> 0, again |-> 0, grace |-> 0]
  /\ lost = 0
  /\ last = Rec("init", <<>>, new, Done, "none", "none")
  /\ lock = "free"
  /\ wire = FALSE
  /\ pc = [p \in Procs |-> "idle"]
  /\ chan = <<>>
  /\ inp = NoInput
  /\ out = NoOutput
  /\ held = "free"
  /\ todo = [p \in Tasks |-> NoSteps]

Untouched == UNCHANGED <<tv, config, ka, lost, last, wire, pc, chan, inp, out>>

Next_step(p, step) == todo[p] # <<>> /\ Head(todo[p]) = step
Advance(p) == todo' = [todo EXCEPT ![p] = Tail(@)]

Invoke(p) ==
  /\ todo[p] = <<>>
  /\ \E steps \in StepsOf(p) : todo' = [todo EXCEPT ![p] = steps]
  /\ UNCHANGED <<lock, held>>
  /\ Untouched

LockConfig(p) ==
  /\ Next_step(p, LockConfigStep)
  /\ held = "free"
  /\ held' = p
  /\ Advance(p)
  /\ UNCHANGED lock
  /\ Untouched

DropConfig(p) ==
  /\ Next_step(p, DropConfigStep)
  /\ held' = "free"
  /\ Advance(p)
  /\ UNCHANGED lock
  /\ Untouched

LockTv(p) ==
  /\ Next_step(p, LockTvStep)
  /\ lock = "free"
  /\ lock' = p
  /\ Advance(p)
  /\ UNCHANGED held
  /\ Untouched

DropTv(p) ==
  /\ Next_step(p, DropTvStep)
  /\ lock' = "free"
  /\ Advance(p)
  /\ UNCHANGED held
  /\ Untouched

OrderNext ==
  \E p \in Tasks :
    \/ Invoke(p)
    \/ LockConfig(p)
    \/ DropConfig(p)
    \/ LockTv(p)
    \/ DropTv(p)

OrderSpec ==
  /\ OrderInit
  /\ [][OrderNext]_vars
  /\ \A p \in Tasks :
       /\ SF_vars(LockConfig(p))
       /\ SF_vars(LockTv(p))
       /\ WF_vars(DropConfig(p))
       /\ WF_vars(DropTv(p))

\* ------------------------------------------------------------- properties
TypeOK ==
  /\ tv.ws \in BOOLEAN /\ tv.input_ws \in BOOLEAN /\ tv.connected \in BOOLEAN
  /\ tv.msg_id \in 0..MaxMsgId
  /\ config \in [configured : BOOLEAN, client_key : Keys \cup {NoKey},
                  mac : Macs \cup {NoMac}]
  /\ \A p \in DOMAIN ka : ka[p] \in 0..MaxKeepalive
  /\ Alive <= MaxKeepalive
  /\ lost \in Nat
  /\ lock \in Procs \cup {"free"}
  /\ wire \in BOOLEAN
  /\ pc \in [Procs -> Held \cup {"idle", "grace", "done"}]
  /\ chan \in Seq([ev : {"acquire", "write", "write_fail", "end"}, by : Procs,
                   id : 0..(MaxMsgId + MaxLog)])

\* Events of an I/O list.
Events(io, ch, evs) ==
  {i \in 1..Len(io) : io[i].ch = ch /\ io[i].ev \in evs}
\* A request of send_command failed: its write, or its response wait.
CmdFailed(io) ==
  \E i \in Events(io, "ws", CmdFailKinds) : io[i].uri # "register"
CmdWrites(io) ==
  {i \in Events(io, "ws", {"write", "write_fail"}) : io[i].uri # "register"}
RefreshCount(io) == Cardinality(Events(io, "input", {"refresh"}))
EmitCount(io) == Cardinality(Events(io, "ui", {"emit"}))
InputWriteFailed(io) == Events(io, "input", {"write_fail"}) # {}

UiCommands ==
  {"send_button", "volume_up", "volume_down", "set_mute", "power_off"}
NotConnected == <<"Not connected">>

\* C1: in every reachable state, connected = true implies that the command
\* channel (ws) is present.
C1_ConnectedHasCommandChannel == tv.connected => tv.ws

\* The session is connected after a keepalive cycle whose refresh and retry
\* both failed: I/O failures have happened and the flag is still set.
C1_Witness ==
  /\ tv.connected /\ tv.ws
  /\ last.op = "keepalive_retry" /\ last.refresh = "failed"

\* C2: between operations, connected = false implies that the command
\* channel and the input channel are both absent.
C2_DisconnectedHasNoChannel ==
  ~tv.connected => (~tv.ws /\ ~tv.input_ws)

\* C3: every command call issued while connected = false, from the UI
\* commands or from the global-shortcut path, fails with "Not connected",
\* writes no frame and opens no channel.
C3_CommandRefusedWhenDisconnected ==
  LET command ==
        \/ last.op \in UiCommands
        \/ /\ last.op = "run_action"
           /\ last.arg[1] \in ButtonActionIds \cup CommandActionIds
  IN (command /\ ~last.was) =>
       /\ ~last.ok
       /\ \E i \in DOMAIN last.err : last.err[i] = "Not connected"
       /\ last.io = <<>>

\* C4: a write failure, read failure, closed channel or response timeout in
\* send_command leaves connected = false when the call returns its error;
\* connected becomes true again only in a connect (or authenticate) whose
\* handshake was registered; while it is false get_status returns false and
\* send_button fails with "Not connected" without any I/O.
C4_CommandFailureIsSticky ==
  [][ /\ CmdFailed(last'.io) => ~tv'.connected
      /\ (CmdFailed(last'.io) /\ last'.op \in UiCommands \ {"send_button"})
           => ~last'.ok
      /\ (~tv.connected /\ tv'.connected) =>
           /\ last'.op \in {"connect", "authenticate"}
           /\ Events(last'.io, "ws", {"registered"}) # {}
      /\ (~tv.connected /\ last'.op = "get_status") => ~last'.ok
      /\ (~tv.connected /\ last'.op = "send_button") =>
           (~last'.ok /\ last'.err = NotConnected /\ last'.io = <<>>
            /\ tv' = tv)
    ]_vars

\* volume_up on a connected session timed out or failed: the call returned
\* an error and the session is disconnected.
C4_Witness ==
  /\ last.op = "volume_up" /\ last.was /\ CmdFailed(last.io)
  /\ ~last.ok /\ ~tv.connected

\* C5: whenever connect returns success, connected is true at that moment,
\* whether or not the input channel could be opened.
C5_ConnectOkImpliesConnected ==
  (last.op = "connect" /\ last.ok) => tv.connected

\* C6: a failed keepalive ping disconnects the session, emits exactly one
\* "connection-lost" event and ends the task; nothing else emits that event,
\* and at most one is emitted between two calls of the session's connect
\* that succeeded (from the connect or the authenticate command), however
\* many keepalive tasks earlier connects have left alive.
C6_OneConnectionLostPerFailure ==
  [][ /\ (last'.op = "keepalive_tick" /\ last'.ping = "failed") =>
           /\ tv.connected /\ ~tv'.connected
           /\ EmitCount(last'.io) = 1
           /\ lost' = lost + 1
           /\ Alive' = Alive - 1
      /\ EmitCount(last'.io) > 0 =>
           (last'.op = "keepalive_tick" /\ last'.ping = "failed")
      /\ lost' # lost =>
           \/ last'.op = "keepalive_tick" /\ last'.ping = "failed"
           \/ /\ lost' = 0 /\ last'.op \in {"connect", "authenticate"}
              /\ Events(last'.io, "ws", {"registered"}) # {}
      /\ lost' <= 1
    ]_vars

\* A ping failed while a keepalive task of an earlier connect is still
\* alive: one event was emitted and the session is disconnected.
C6_Witness ==
  /\ last.op = "keepalive_tick" /\ last.ping = "failed"
  /\ lost = 1 /\ ~tv.connected /\ Alive >= 1

\* C7: a button write that fails on the input channel while no request on
\* the command channel failed leaves connected = true (so that the next
\* send_button reopens the input channel).
C7_InputFailureKeepsSession ==
  (last.op = "send_button" /\ InputWriteFailed(last.io)
     /\ ~CmdFailed(last.io)) => tv.connected

\* The text of the frame send_button writes for each button name.
ExpectedName ==
  [b \in Buttons \cup {ButtonActions[id] : id \in ButtonActionIds} |->
     CASE b = <<"u", "p">> -> <<"U", "P">>
       [] b = <<"O", "k">> -> <<"O", "K">>
       [] OTHER -> b]

\* C8: send_button writes exactly one frame, type:button / name:<upper-cased
\* name> / blank line, to the input channel, as its last I/O (no response is
\* read); when that write fails the input channel is absent and connected is
\* false afterwards, and the error is returned.
C8_ButtonFrame ==
  LET button == IF last.op = "send_button" THEN last.arg
                ELSE ButtonActions[last.arg[1]]
      writes == Events(last.io, "input", {"write", "write_fail"})
      frame == <<(<<"type:button">>), <<"name:">> \o ExpectedName[button],
                 <<>>>>
  IN ((last.op = "send_button" /\ last.was)
      \/ (last.op = "run_action" /\ last.arg[1] \in ButtonActionIds)) =>
       /\ Cardinality(writes) <= 1
       /\ Events(last.io, "input", {"read"}) = {}
       /\ \A i \in writes : i = Len(last.io) /\ last.io[i].body = frame
       /\ last.ok <=> Events(last.io, "input", {"write"}) # {}
       /\ InputWriteFailed(last.io) =>
            /\ ~tv.input_ws /\ ~tv.connected /\ ~last.ok
            /\ last.err = <<"Button send failed (disconnected)">>

\* send_button "up" on a connected session: the write of the frame failed.
C8_Witness ==
  /\ last.op = "send_button" /\ last.was /\ last.arg = <<"u", "p">>
  /\ InputWriteFailed(last.io)
  /\ ~tv.input_ws /\ ~tv.connected

\* C9 as stated: after a cycle whose refresh failed the refresh is attempted
\* exactly once more after the grace delay, and the next tick of the task
\* attempts it again, whatever made the refresh fail.
C9_RetryAlwaysRuns ==
  /\ last.op = "keepalive_retry" => RefreshCount(last.io) = 1
  /\ (last.op = "keepalive_tick" /\ last.arg = <<"again">>
        /\ last.ping = "ok") => RefreshCount(last.io) = 1

\* C9 amended: a tick whose ping succeeded and whose refresh failed puts the
\* task into the grace sleep; after it the task attempts the refresh exactly
\* once if connected is still true and not at all if it is false, and then
\* sleeps until its next tick; that tick attempts the refresh again exactly
\* when connected is still true and its ping succeeds.
C9_RetryOnceWhileConnected ==
  [][ /\ (last'.op = "keepalive_tick" /\ last'.refresh = "failed") =>
           (last'.ping = "ok" /\ ka'.grace = ka.grace + 1)
      /\ last'.op = "keepalive_retry" =>
           /\ ka.grace > 0
           /\ ka'.grace = ka.grace - 1 /\ ka'.again = ka.again + 1
           /\ RefreshCount(last'.io) = (IF tv.connected THEN 1 ELSE 0)
      /\ (last'.op = "keepalive_tick" /\ last'.arg = <<"again">>) =>
           RefreshCount(last'.io)
             = (IF tv.connected /\ last'.ping = "ok" THEN 1 ELSE 0)
    ]_vars

\* The tick after a cycle whose refresh had failed: the ping succeeded and
\* the refresh was attempted again.
C9_Witness ==
  /\ last.op = "keepalive_tick" /\ last.arg = <<"again">>
  /\ last.ping = "ok" /\ RefreshCount(last.io) = 1

ConnectFailed(l) ==
  \/ l.op = "connect" /\ ~l.ok
  \/ /\ l.op = "authenticate" /\ ~l.ok /\ l.io # <<>>
     /\ Events(l.io, "ws", {"registered"}) = {}

\* C11: when connect fails at any step (opening the command channel, the
\* connect timeout, sending the handshake, a registration error, a closed
\* channel, the handshake timeout) an error is returned, connected is false
\* afterwards, no keepalive task is spawned, and every channel of the
\* previous session was closed first.
C11_FailedConnectDisconnects ==
  [][ ConnectFailed(last') =>
        /\ last'.err # <<>>
        /\ ~tv'.connected
        /\ ka' = ka
        /\ tv.ws => Events(last'.io, "ws", {"close"})
                       = {IF tv.input_ws THEN 2 ELSE 1}
        /\ tv.input_ws => Events(last'.io, "input", {"close"}) = {1}
    ]_vars

\* A connect failed while the session of an earlier connect was connected:
\* its channels were closed and the session is disconnected.
C11_Witness ==
  /\ last.op = "connect" /\ ~last.ok /\ last.was
  /\ Events(last.io, "ws", {"close"}) # {}
  /\ ~tv.connected /\ Alive >= 1

\* The operation was a command of the session, from the UI or a shortcut.
IsCommand(l) ==
  \/ l.op \in UiCommands
  \/ l.op = "run_action" /\ l.arg[1] \in ButtonActionIds \cup CommandActionIds
IsPowerOff(l) ==
  \/ l.op = "power_off"
  \/ l.op = "run_action" /\ l.arg = <<"power_off">>

\* C12: after power_off returned success connected is false, whether or not
\* the device closed a socket, and the command issued next (before any
\* connect) fails with "Not connected" without any I/O.
C12_PowerOffDisconnects ==
  [][ /\ (IsPowerOff(last') /\ last'.ok) => ~tv'.connected
      /\ (IsPowerOff(last) /\ last.ok /\ IsCommand(last')) =>
           /\ ~last'.ok
           /\ \E i \in DOMAIN last'.err : last'.err[i] = "Not connected"
           /\ last'.io = <<>>
    ]_vars

\* C13: disconnect, from any state, leaves connected = false and both
\* channels absent, closes each channel that was present exactly once and
\* touches nothing else of the session; a second disconnect changes nothing
\* and performs no I/O; the saved configuration (credential, MAC) is unchanged.
C13_DisconnectClearsSession ==
  [][ last'.op = "disconnect" =>
        /\ tv' = [tv EXCEPT !.connected = FALSE, !.ws = FALSE,
                            !.input_ws = FALSE]
        /\ last'.ok
        /\ Cardinality(Events(last'.io, "input", {"close"}))
             = (IF tv.input_ws THEN 1 ELSE 0)
        /\ Cardinality(Events(last'.io, "ws", {"close"}))
             = (IF tv.ws THEN 1 ELSE 0)
        /\ Len(last'.io) = (IF tv.input_ws THEN 1 ELSE 0)
                           + (IF tv.ws THEN 1 ELSE 0)
        /\ disconnect(tv') = [tv |-> tv', io |-> <<>>]
        /\ config' = config
    ]_vars

\* A connected session with both channels and a saved credential was
\* disconnected: both channels were closed.
C13_Witness ==
  /\ last.op = "disconnect" /\ last.was /\ Len(last.io) = 2
  /\ config.client_key # NoKey
  /\ ~tv.connected /\ ~tv.ws /\ ~tv.input_ws

\* C14: connected changes from false to true, and a command channel is
\* opened, only inside a connect that the caller started (the connect or
\* the authenticate command) and only when its handshake was registered; no
\* keepalive tick or retry and no command does either.
C14_NoAutomaticReconnect ==
  [][ /\ (~tv.connected /\ tv'.connected) =>
           /\ last'.op \in {"connect", "authenticate"}
           /\ Events(last'.io, "ws", {"registered"}) # {}
      /\ (Events(last'.io, "ws", {"open", "open_fail", "open_timeout"}) # {}
           \/ (~tv.ws /\ tv'.ws)) =>
           last'.op \in {"connect", "authenticate"}
      /\ (last'.op \in {"keepalive_tick", "keepalive_retry"}
           \/ IsCommand(last')) =>
           /\ tv'.connected => tv.connected
           /\ tv'.ws = tv.ws
    ]_vars

\* After a lost connection another keepalive task found the session
\* disconnected and ended without touching it.
C14_Witness ==
  /\ last.op = "keepalive_tick" /\ last.ping = "skipped" /\ last.io = <<>>
  /\ lost = 1 /\ ~tv.connected /\ tv.ws

\* C18: every response that send_command returns is the device's reply to
\* the request that this call wrote, never the reply to an earlier request.
C18_ReplyIsOwn ==
  /\ Events(last.io, "ws", {"read_earlier"}) = {}
  /\ \A i \in Events(last.io, "ws", {"read"}) :
       last.io[i - 1].ev = "write" /\ last.io[i].id = last.io[i - 1].id

\* C19: every network wait made while holding the session lock is bounded,
\* so that against a device that stops responding every operation returns
\* and releases the lock: no operation is left in a wait with the lock held.
C19_EveryWaitBounded ==
  /\ lock = "free"
  /\ Events(last.io, "input", {"open_wait"}) = {}

\* The handshake waits of the operation that ended by their bound.
HandshakeTimeouts(io) ==
  {i \in Events(io, "ws", {"timeout"}) : io[i].uri = "register"}

\* C20: the handshake wait is bounded by 5 s exactly when a credential was
\* supplied to connect (the connect command with a saved credential) and by
\* 60 s exactly when none was (no saved credential, or authenticate); when
\* the bound is exceeded connect fails with the registration-timeout error,
\* which differs from the errors of a device-reported error frame and of
\* the connect-phase timeout.
C20_HandshakeBound ==
  [][ LET io == last'.io
          supplied == last'.op = "connect" /\ config.client_key # NoKey
      IN /\ \A i \in HandshakeTimeouts(io) :
              /\ io[i].id = (IF supplied THEN 5 ELSE 60)
              /\ io[i - 1].ev = "write" /\ io[i - 1].uri = "register"
              /\ (io[i - 1].body # <<>>) <=> supplied
              /\ i = Len(io)
              /\ ~last'.ok
              /\ last'.err
                   = <<"Registration timeout - check TV for pairing prompt">>
         /\ Events(io, "ws", {"error"}) # {} =>
              Len(last'.err) = 2 /\ last'.err[1] = "Registration error"
         /\ Events(io, "ws", {"open_timeout"}) # {} =>
              last'.err = <<"Connection timeout">>
    ]_vars

\* A connect with a saved credential gave up the handshake after 5 s.
C20_Witness ==
  /\ last.op = "connect" /\ config.client_key # NoKey
  /\ \E i \in HandshakeTimeouts(last.io) : last.io[i].id = 5

\* C15: operations on the session are mutually exclusive under the single
\* session lock: at every moment the processes inside a handler body (the
\* UI's connect, disconnect or command, a global-shortcut action, a
\* keepalive ping or refresh) are at most the one that holds the lock, and
\* every step that touches the session is a step of the lock's holder.
Inside == {p \in Procs : pc[p] \in Held}

C15_MutualExclusion ==
  [][/\ Inside \subseteq {lock}
     /\ Inside' \subseteq {lock'}
     /\ tv' # tv => lock \in Inside /\ pc'[lock] # pc[lock]]_vars

\* A keepalive task waits (in its grace sleep) while the UI is between a
\* request and its response.
C15_Witness ==
  /\ lock = "ui" /\ pc["ui"] = "sent"
  /\ pc["keepalive"] = "grace" /\ pc["shortcut"] = "idle"

\* C16: the keepalive task never holds the session lock while it sleeps,
\* neither in the 25 s wait between ticks nor in the 3 s grace delay before
\* the retry (so another operation can take the lock during either sleep).
C16_KeepaliveSleepsUnlocked ==
  pc["keepalive"] \in {"idle", "grace"} => lock # "keepalive"

\* Another operation has taken the lock during the grace sleep, and written.
C16_Witness ==
  /\ pc["keepalive"] = "grace"
  /\ lock = "shortcut" /\ pc["shortcut"] = "sent"

\* C17: request frames are written to the command channel in the order in
\* which their callers acquired the session lock (each write is by the
\* latest acquirer), and no other request is written between one call's
\* request write and the end of that call's response wait.
Writes == {i \in DOMAIN chan : chan[i].ev = "write"}

C17_WritesInLockOrder ==
  /\ \A i \in Writes :
       \E a \in 1..(i - 1) :
         /\ chan[a] = Log("acquire", chan[i].by, 0)
         /\ \A k \in (a + 1)..(i - 1) : chan[k].ev # "acquire"
  /\ \A i, j \in Writes :
       i < j => \E k \in (i + 1)..(j - 1) :
                  chan[k] = Log("end", chan[i].by, chan[i].id)

\* Two callers have written a request each, one after the other.
C17_Witness ==
  \E i, j \in Writes : i < j /\ chan[i].by # chan[j].by

\* C21: the credential of a successful connect result is the client-key
\* string of the registered frame's payload, and none when the payload has
\* no client-key string; the connect command writes the saved credential
\* only when the result carries one, so that a registered reply without a
\* key leaves the saved credential as it was.
PayloadKey(io) ==
  LET i == CHOOSE j \in Events(io, "ws", {"registered"}) : TRUE
  IN IF io[i].body = <<>> THEN NoKey ELSE io[i].body[1][1]

C21_CredentialFromPayload ==
  [][last'.op = "connect" /\ last'.ok =>
       /\ \A o \in ConnectRegistered :
            connect(tv, config.client_key, o).key
              = (IF o.key \in Keys THEN o.key ELSE NoKey)
       /\ config' = IF PayloadKey(last'.io) \in Keys
                    THEN [config EXCEPT !.client_key = PayloadKey(last'.io)]
                    ELSE config]_vars

\* A connect answered by a registered frame without a client-key, the
\* saved credential still there.
C21_Witness ==
  /\ last.op = "connect" /\ last.ok
  /\ PayloadKey(last.io) = NoKey
  /\ config.client_key \in Keys

\* The MAC string under test without its separators, whether it is twelve
\* hexadecimal digits, and the six bytes it then spells.
Digits == SelectSeq(MacOf(inp), LAMBDA c : c # ":" /\ c # "-")
IsHex(c) == \E i \in DOMAIN HexChars : HexChars[i] = c
ValidMac == Len(Digits) = 12 /\ \A i \in 1..12 : IsHex(Digits[i])
Address ==
  [k \in 1..6 |-> 16 * to_digit(Digits[2 * k - 1]) + to_digit(Digits[2 * k])]

\* C22: for every valid 12-hex-digit MAC string, with ":" or "-" separators
\* or with none, wake_on_lan sends a packet, and every packet it sends is
\* exactly 102 bytes: 6 bytes 0xFF, then 16 repetitions of the 6 address
\* bytes decoded from the string in order.
C22_WakePacket ==
  out.op \notin {"none", "set_mac"} /\ ValidMac =>
    /\ out.wake.sends # <<>>
    /\ \A n \in DOMAIN out.wake.sends :
         LET packet == out.wake.sends[n].packet
         IN /\ Len(packet) = 102
            /\ \A i \in 1..6 : packet[i] = 255
            /\ \A r \in 0..15, k \in 1..6 :
                 packet[6 + 6 * r + k] = Address[k]

\* A MAC written with "-" whose first two bytes differ has been sent.
C22_Witness ==
  /\ out.op = "wake_on_lan" /\ ValidMac
  /\ inp.sep = <<"-">> /\ inp.groups[1] # inp.groups[2]
  /\ out.wake.sends # <<>>

\* C23: for every malformed MAC string (after removing ":" and "-",
\* anything other than exactly 12 hexadecimal digits) wake_on_lan returns a
\* format error and sends no datagram.
C23_MalformedMacRefused ==
  out.op = "wake_on_lan" /\ ~ValidMac =>
    /\ out.wake.kind = "err"
    /\ out.wake.err \in {<<"Invalid MAC address">>,
                         <<"Invalid MAC address length">>}
    /\ out.wake.sends = <<>>

\* C24: wake_on_lan with a valid MAC and no broadcast address, or one that
\* is blank, performs exactly one send, to the limited broadcast address,
\* and succeeds iff that send does. With a broadcast address it sends the
\* same packet to that address on port 9 and then on port 7, only after
\* the primary send succeeded, and the result is that of the primary send
\* whatever the two secondary sends do.
Blank(ip) == \A i \in DOMAIN ip : ip[i] = " "
C24_SecondarySendsNeverDecide ==
  out.op = "wake_on_lan" /\ ValidMac =>
    LET s == out.wake.sends
        b == out.broadcast
        to == SelectSeq(b.ip, LAMBDA c : c # " ")
    IN /\ Len(s) >= 1
       /\ s[1].to = LimitedBroadcast /\ s[1].port = 9
       /\ out.wake.kind = (IF s[1].ok THEN "ok" ELSE "err")
       /\ IF b.some /\ ~Blank(b.ip) /\ s[1].ok
          THEN /\ Len(s) = 3
               /\ s[2] = [s[1] EXCEPT !.to = to, !.ok = s[2].ok]
               /\ s[3] = [s[1] EXCEPT !.to = to, !.port = 7, !.ok = s[3].ok]
          ELSE Len(s) = 1

\* Both secondary sends failed and the result is success.
C24_Witness ==
  /\ out.op = "wake_on_lan" /\ ValidMac
  /\ Len(out.wake.sends) = 3
  /\ ~out.wake.sends[2].ok /\ ~out.wake.sends[3].ok
  /\ out.wake.kind = "ok"

\* C25: with wake_streaming_on_power_on set and a streaming device
\* configured, every Power On trigger (the power_on command and the
\* power_on shortcut action) that wakes the TV also attempts to wake the
\* streaming device, whose failure does not change the result; the device
\* is not woken when the TV wake failed.
C25_PowerOnWakesStreaming ==
  out.op \in {"power_on", "run_action"} /\ out.streaming
    /\ out.device # "none" =>
      IF out.wake.kind = "ok"
      THEN out.device_wake # <<>> /\ out.kind = "ok"
      ELSE out.device_wake = <<>>

\* C27 as stated: every request frame written carries an id greater by one
\* than the id of the request frame written before it.
C27_IdsGreaterByOne ==
  \A i, j \in Writes :
    i < j /\ (\A k \in (i + 1)..(j - 1) : k \notin Writes) =>
      chan[j].id = chan[i].id + 1

\* C27: request ids are strictly increasing over the lifetime of the
\* process and no two requests carry the same id: every call of
\* send_command that reaches the write takes an id greater by one than the
\* call before it did, whether or not its frame was written, and neither
\* disconnect nor connect resets the counter.
Attempts == {i \in DOMAIN chan : chan[i].ev \in {"write", "write_fail"}}

C27_IdsIncrease ==
  \A i, j \in Attempts :
    i < j =>
      /\ chan[i].id < chan[j].id
      /\ (\A k \in (i + 1)..(j - 1) : k \notin Attempts) =>
           chan[j].id = chan[i].id + 1

\* A request written after one whose write failed: the ids of the two
\* frames written differ by two.
C27_Witness ==
  \E i, j \in Writes :
    /\ i < j /\ chan[j].id = chan[i].id + 2
    /\ \E k \in (i + 1)..(j - 1) : chan[k].ev = "write_fail"
\* The frames of the input at which a read loop stops.
Stops(kinds) == {i \in 1..Len(inp) : inp[i].kind \in kinds}
First(S) == CHOOSE i \in S : \A j \in S : i <= j

\* C26: the handshake of connect writes exactly one register frame, which
\* holds the client-key exactly when a credential was supplied; it reads
\* on past every non-text frame, every text frame that is not JSON and
\* every JSON frame of another type; the first "registered" frame ends it
\* with success, the first "error" frame with a registration error that
\* carries the device's reason, a read error or the end of the stream with
\* a failure.
C26_Handshake ==
  out.op = "connect" =>
    LET S == Stops({"registered", "error", "read_err", "closed"})
        regs == {i \in Events(out.io, "ws", {"write"}) :
                    out.io[i].uri = "register"}
    IN /\ Cardinality(regs) = 1
       /\ \A i \in regs :
            /\ out.credential # NoKey => out.io[i].body = <<(<<out.credential>>)>>
            /\ out.credential = NoKey => out.io[i].body = <<>>
       /\ S = {} => ~out.ok /\ out.read = Len(inp)
       /\ S # {} =>
            LET f == inp[First(S)]
            IN /\ out.read = First(S)
               /\ f.kind = "registered" =>
                    /\ out.ok
                    /\ Events(out.io, "ws", {"registered"}) # {}
               /\ f.kind = "error" =>
                    /\ ~out.ok
                    /\ out.err = <<"Registration error",
                                   IF f.data \in Reasons THEN f.data
                                   ELSE "Unknown">>
               /\ f.kind = "read_err" =>
                    ~out.ok /\ out.err = <<"WebSocket error">>
               /\ f.kind = "closed" =>
                    ~out.ok /\ out.err = <<"Connection closed">>

\* A handshake that succeeded, and one that the device refused with a
\* reason, each after a non-text frame, a text frame that is not JSON and
\* a JSON frame of another type.
C26_Witness ==
  /\ out.op = "connect"
  /\ Len(inp) = 3
  /\ {inp[1].kind, inp[2].kind} \subseteq {"binary", "text", "other", "reply"}
  /\ inp[2].kind = "text"
  /\ \/ inp[3].kind = "registered" /\ out.ok
     \/ inp[3] = Frame("error", "denied") /\ out.err[2] = "denied"
  /\ out.read = 3

\* C28: after its request is written, send_command reads on past every
\* non-text frame and every text frame that is not JSON; the first text
\* frame that decodes as JSON is returned as it is, whether or not it
\* answers this request; a read error, the end of the stream or the 3 s
\* bound ends the wait with an error.
C28_FirstJsonReturned ==
  out.op = "send_command" =>
    LET S == Stops(JsonKinds \cup {"read_err", "closed"})
        wrote == Events(out.io, "ws", {"write"})
    IN /\ Cardinality(wrote) = 1
       /\ S = {} =>
            /\ ~out.ok
            /\ out.err = <<"Command timeout (disconnected)">>
            /\ out.read = Len(inp)
       /\ S # {} =>
            LET f == inp[First(S)]
            IN /\ out.read = First(S)
               /\ f.kind \in JsonKinds =>
                    /\ out.ok
                    /\ out.resp = RespOf(f)
                    /\ out.tv.connected
               /\ f.kind = "read_err" =>
                    ~out.ok /\ out.err = <<"WebSocket error">>
               /\ f.kind = "closed" =>
                    ~out.ok /\ out.err = <<"Connection closed">>

\* A request that was answered with a frame that is not its response, read
\* after a non-text frame and a text frame that is not JSON and before its
\* own response.
C28_Witness ==
  /\ out.op = "send_command"
  /\ Len(inp) = 3
  /\ inp[1].kind \in {"binary", "text"}
  /\ inp[2] = Frame("other", "plain")
  /\ inp[3] = Frame("reply", "path")
  /\ out.ok
  /\ out.read = 2
  /\ ~out.resp.socketPath

\* C29: a keepalive task that finds the session disconnected at its tick
\* ends without a ping and without a notification.
C29_ExitIsSilent ==
  [][ last'.op = "keepalive_tick" /\ ~tv.connected =>
        /\ last'.io = <<>>
        /\ last'.ping = "skipped"
        /\ Alive' = Alive - 1
        /\ tv' = tv
    ]_vars

\* C29: a keepalive task that finds the session disconnected at its tick
\* ends without a ping and without a notification; hence once the session
\* is disconnected and stays so, every keepalive task ends.
C29_KeepaliveEnds ==
  /\ C29_ExitIsSilent
  /\ <>[](~tv.connected) => <>[](Alive = 0)

\* C30: at most one keepalive task is alive at any time: a task spawned for
\* an earlier session has ended before a later connect establishes a
\* session, or never pings or refreshes that session.
C30_OneKeepalive ==
  /\ [](Alive <= 1)
  /\ [][ last'.op = "keepalive_tick" /\ last'.ping # "skipped" =>
            Alive = 1 ]_vars

\* C31: when connected goes from true to false through a failure or timeout
\* inside the keepalive task (its ping, its refresh of the input channel or
\* the retry of that refresh), "connection-lost" is emitted before the task
\* ends: the only keepalive task, ending at the step that follows the one in
\* which it lost the connection, has emitted it in that step.
C31_LossNotified ==
  [][ /\ last.op \in {"keepalive_tick", "keepalive_retry"}
      /\ last.was /\ ~tv.connected
      /\ Alive = 1
      /\ last'.op = "keepalive_tick" /\ last'.ping = "skipped"
      => EmitCount(last.io) >= 1
    ]_vars

\* C32: no interleaving of the UI commands, the shortcut actions and the
\* keepalive task deadlocks on the two locks: no task waits for the session
\* lock while it holds the config lock, and every task that waits for a lock
\* gets it, the holders ending.
C32_NoDeadlock ==
  /\ [](\A p \in Tasks : held = p => ~Next_step(p, LockTvStep))
  /\ \A p \in Tasks : (todo[p] # <<>>) ~> (todo[p] = <<>>)

\* A task that holds the session lock waits for the config lock, which
\* another task holds, while a third waits for the session lock.
C32_Witness ==
  \E p, q, r \in Tasks :
    /\ lock = p /\ Next_step(p, LockConfigStep)
    /\ held = q /\ q # p
    /\ r \notin {p, q} /\ Next_step(r, LockTvStep)

\* C33: in every state, connected implies that the session holds a command
\* channel on which a "registered" frame was received during the connect
\* that opened it; the command channel is replaced only inside connect,
\* after the previous one was closed.
C33_ConnectedIsRegistered ==
  /\ [](tv.connected => tv.ws)
  /\ [][ LET io == last'.io
              opens == Events(io, "ws", {"open"})
          IN /\ opens # {} => last'.op \in {"connect", "authenticate"}
             /\ \A i \in opens :
                  /\ \A j \in opens : j = i
                  /\ tv.ws => \E j \in Events(io, "ws", {"close"}) : j < i
                  /\ tv'.ws
             /\ tv'.connected =>
                  IF opens = {} THEN tv.connected /\ tv.ws
                  ELSE \E i \in opens, j \in Events(io, "ws", {"registered"}) :
                         i < j
             /\ opens = {} => (tv'.ws => tv.ws)
        ]_vars

\* A connect on a connected session: the channel it held is closed, a new
\* one is opened and registered.
C33_Witness ==
  /\ last.op = "connect" /\ last.was /\ tv.connected
  /\ \E i \in Events(last.io, "ws", {"close"}),
        j \in Events(last.io, "ws", {"open"}),
        k \in Events(last.io, "ws", {"registered"}) : i < j /\ j < k

\* The channels the session holds after the events of io from the i-th
\* on, and whether each channel was opened only while absent.
RECURSIVE OpenAfter(_, _, _)
OpenAfter(h, io, i) ==
  IF i > Len(io) THEN h
  ELSE
    LET e == io[i]
    IN CASE e.ch = "ws" /\ e.ev = "open" ->
              OpenAfter([h EXCEPT !.ok = @ /\ ~h.ws, !.ws = TRUE], io, i + 1)
         [] e.ch = "ws" /\ e.ev = "close" ->
              OpenAfter([h EXCEPT !.ws = FALSE], io, i + 1)
         [] e.ch = "input" /\ e.ev = "open" ->
              OpenAfter([h EXCEPT !.ok = @ /\ ~h.input, !.input = TRUE],
                        io, i + 1)
         [] e.ch = "input" /\ e.ev \in {"close", "write_fail"} ->
              OpenAfter([h EXCEPT !.input = FALSE], io, i + 1)
         [] OTHER -> OpenAfter(h, io, i + 1)

\* C34: the session never holds or leaks more than one open socket of a
\* kind: an input channel is opened only when none is held (in connect after
\* the teardown, in the reopening of send_button, in a refresh after the old
\* one was taken and closed), a command channel only after the previous one
\* was closed; no operation overwrites a channel it holds.
C34_OneSocketPerKind ==
  [][ \E h \in {OpenAfter([ws |-> tv.ws, input |-> tv.input_ws, ok |-> TRUE],
                           last'.io, 1)} :
        /\ h.ok
        /\ h.ws = tv'.ws
        /\ h.input = tv'.input_ws
    ]_vars

\* A keepalive refresh and a retry of it that replaced the input channel
\* held, and a button that reopened an absent one.
C34_Witness ==
  /\ last.op \in {"keepalive_tick", "keepalive_retry", "send_button"}
  /\ last.refresh = "ok" \/ last.op = "send_button"
  /\ tv.input_ws
  /\ Events(last.io, "input", {"open"}) # {}
  /\ last.op # "send_button" => Events(last.io, "input", {"close"}) # {}

\* C35: when a connect or authenticate call returns an error, the credential
\* and the MAC address saved for the device are what they were before the
\* call: a failed pairing never erases a saved credential.
C35_FailureKeepsCredential ==
  [][ last'.op \in {"connect", "authenticate"} /\ ~last'.ok =>
        /\ config'.client_key = config.client_key
        /\ config'.mac = config.mac
    ]_vars

\* C36: send_command called while the command channel is absent returns the
\* "Not connected" error and leaves the session as it was: the request-id
\* counter is not incremented, connected is not modified, nothing is
\* written.
C36_AbsentChannelNoEffect ==
  [][ /\ last'.op = "run_action"
      /\ last'.arg[1] \in CommandActionIds
      /\ ~tv.ws
      => /\ ~last'.ok
         /\ last'.err = NotConnected
         /\ last'.io = <<>>
         /\ tv' = tv
    ]_vars

\* A shortcut command that ran on a session without command channel, after
\* requests had been written on an earlier one.
C36_Witness ==
  /\ last.op = "run_action"
  /\ last.arg[1] \in CommandActionIds
  /\ ~tv.ws
  /\ last.err = NotConnected
  /\ tv.msg_id > 0

\* The MAC string under test without ":", "-" and blanks, whether it is
\* twelve hexadecimal digits, and the six bytes it then spells.
Typed == SelectSeq(out.typed, LAMBDA c : c \notin {":", "-", " "})
TypedValid == Len(Typed) = 12 /\ \A i \in 1..12 : IsHex(Typed[i])
TypedAddress ==
  [k \in 1..6 |-> 16 * to_digit(Typed[2 * k - 1]) + to_digit(Typed[2 * k])]

\* C37: every MAC string that set_mac accepts and stores (12 hex digits
\* after removing ":", "-" and spaces, stored colon-separated) is accepted
\* by wake_on_lan and decodes to the same 6 bytes; set_mac rejects every
\* other string and then leaves the stored MAC as it was.
C37_StoredMacWakes ==
  out.op = "set_mac" =>
    /\ out.set.ok => TypedValid
    /\ TypedValid /\ out.configured =>
         /\ Len(out.set.mac) = 17
         /\ \A i \in 1..17 :
              out.set.mac[i] = (IF i % 3 = 0 THEN ":"
                                ELSE Typed[i - (i \div 3)])
         /\ out.wake.kind = "ok"
         /\ \A k \in 1..6 : out.wake.sends[1].packet[6 + k] = TypedAddress[k]
    /\ ~TypedValid =>
         /\ ~out.set.ok
         /\ out.set.err = <<"Invalid MAC address format">>
         /\ out.set.mac = out.before

\* A MAC typed with blanks was stored with colons and woke the TV.
C37_Witness ==
  /\ out.op = "set_mac"
  /\ out.set.ok /\ out.wake.kind = "ok"
  /\ out.typed[3] = " "
  /\ inp.groups[1] # inp.groups[2]

\* The answer of the status endpoint queried last, and whether it is a
\* status: a response without error field.
LastAnswer == inp.status[Len(inp.status)]
HasStatus == LastAnswer.r = "resp" /\ ~LastAnswer.resp.error

\* C38: get_connected_mac chooses the wired MAC if the status reports wired
\* connected and a wired MAC is known; otherwise the wifi MAC if the status
\* reports wifi connected and a wifi MAC is known; otherwise the first MAC
\* available, wifi before wired, or none. When the status query fails it
\* returns the first available MAC too, not an error.
C38_MacPriority ==
  out.op = "get_connected_mac" /\ inp.info.r = "resp" =>
    LET wifi == inp.info.resp.wifi_mac
        wired == inp.info.resp.wired_mac
        status == LastAnswer.resp
    IN /\ out.ok
       /\ out.mac =
            (CASE HasStatus /\ status.wired_connected /\ wired # NoMac -> wired
               [] HasStatus /\ status.wifi_connected /\ wifi # NoMac -> wifi
               [] wifi # NoMac -> wifi
               [] OTHER -> wired)

\* Both interfaces have a MAC and the status, answered by the second
\* endpoint, reports both connected: the wired MAC was chosen.
C38_Witness ==
  /\ out.op = "get_connected_mac"
  /\ Len(inp.status) = 2 /\ HasStatus
  /\ LastAnswer.resp.wired_connected /\ LastAnswer.resp.wifi_connected
  /\ inp.info.resp.wifi_mac # NoMac
  /\ out.mac = WiredMac

\* The requests an operation wrote or tried to write, in order.
Queried(io) ==
  LET at == {i \in 1..Len(io) :
               io[i].ch = "ws" /\ io[i].ev \in {"write", "write_fail"}}
      nth(n) == CHOOSE i \in at : Cardinality({j \in at : j < i}) = n - 1
  IN [n \in 1..Cardinality(at) |-> io[nth(n)].uri]

\* C39: get_network_status queries connectionmanager/getStatus,
\* com.webos.service.wifi/getstatus and com.palm.wifi/getStatus in this
\* order, the next one only when the response before holds an error field;
\* it returns the first response without error field, the last endpoint's
\* error when all three hold one, and stops at once, the session marked
\* disconnected, when a request fails at transport level.
C39_StatusEndpoints ==
  out.op = "get_network_status" =>
    /\ Queried(out.io)
         = SubSeq(<<UriGetStatus, UriWifiStatus, UriPalmStatus>>,
                  1, Len(inp.status))
    /\ \A n \in 1..(Len(inp.status) - 1) :
         inp.status[n].r = "resp" /\ inp.status[n].resp.error
    /\ HasStatus => out.ok /\ out.resp = LastAnswer.resp /\ out.tv.connected
    /\ LastAnswer.r = "resp" /\ LastAnswer.resp.error =>
         /\ Len(inp.status) = 3
         /\ ~out.ok
         /\ out.err = <<IF LastAnswer.resp.reason = StatusError
                         THEN StatusError ELSE "unknown">>
         /\ out.tv.connected
    /\ LastAnswer.r # "resp" => ~out.ok /\ ~out.tv.connected

\* All three endpoints answered with an error, the first with another one
\* than the last.
C39_Witness ==
  /\ out.op = "get_network_status"
  /\ Len(inp.status) = 3
  /\ LastAnswer.r = "resp" /\ LastAnswer.resp.error
  /\ inp.status[1].resp.reason # LastAnswer.resp.reason
  /\ out.err = <<StatusError>>

====
